---- MODULE Spec2Model ----
(***************************************************************************)
(* Model of the document-to-knowledge-graph pipeline of crisper-app:       *)
(* ingest_documents (Stage 1), construct_graph (Stage 2) and the helper    *)
(* save_graph_data of src-tauri/src/commands/ingest.rs, with sanitize_id   *)
(* of src-tauri/src/utils.rs and summarize_document of                     *)
(* src-tauri/src/llm/extractor.rs; and of the pure helpers chunk_text,     *)
(* sanitize_id (utils.rs) and clean_and_repair_json (llm/extractor.rs),    *)
(* each studied in a specification of its own through the variable call.   *)
(*                                                                         *)
(* Strings the code looks into (names, record ids) are tuples of           *)
(* one-character strings; texts it only copies are TLA+ strings.           *)
(* Every command is a process that advances one store call at a time.      *)
(***************************************************************************)
EXTENDS Integers, Sequences, FiniteSets, Bags, TLC

VARIABLES
    event,       \* table event: the Session nodes
    document,    \* table document
    chunk,       \* table chunk
    entity,      \* table entity
    imported,    \* edge table imported (Session -> Document), a bag of edges
    contains,    \* edge table contains (Document -> Chunk), a bag of edges
    mentions,    \* edge table mentions (Chunk -> Entity), a bag of edges
    related_to,  \* edge table related_to (Entity -> Entity), a bag of edges
    uuids,       \* number of Uuid::new_v4() values drawn so far
    faults,      \* number of store calls that have failed so far
    ing,         \* the ingest_documents invocation: its locals and position
    cg,          \* the construct_graph invocations: locals and position of each
    sg,          \* the save_graph_data call: its locals and position
    call,        \* the call of a pure function under study: its arguments,
                 \* its locals, its position and its result
    hist         \* history: the commands run so far; newChunk: a Chunk node was
                 \* created since the last selection of construct_graph;
                 \* covered: that selection took every unprocessed chunk;
                 \* settled: the last construct_graph run returned Ok, had
                 \* taken every unprocessed chunk, and no Chunk node was
                 \* created since it selected; interrupted: the ids of the
                 \* chunks a construct_graph run was working on when the
                 \* process stopped

store == <<event, document, chunk, entity, imported, contains, mentions, related_to>>
vars == <<event, document, chunk, entity, imported, contains, mentions, related_to,
          uuids, faults, ing, cg, sg, call, hist>>

----------------------------------------------------------------------------
(* Bounds of the model *)

\* store calls that may fail in one behaviour
MaxFaults == 1
\* ingest_documents invocations in one behaviour
MaxIngestRuns == 1
\* construct_graph invocations and save_graph_data calls in one behaviour
MaxGraphRuns == 2
\* the LIMIT of the Stage 2 selection (500 in the code), scaled to the model
BatchLimit == 2
\* the longest text given to chunk_text and the largest chunk_size
MaxTextLen == 4
MaxChunkSize == 3
\* the windows of one chunk_text call that are followed (a call that would
\* examine more is not followed further)
MaxWindows == 5
\* the longest name given to sanitize_id on its own
MaxNameLen == 3
\* the byte limit of the user turn of summarize_document (2000 in the code),
\* scaled to the model, and the longest unit text given to it, in characters
PromptBytes == 4
MaxUnitChars == 4
\* the number of usize values (2^64 on the 64-bit targets), scaled to the
\* integers of the checker
UsizeRange == 1048576

----------------------------------------------------------------------------
(* Characters and strings *)

UpperCase == {"A", "B"}
LowerCase == {"a", "b", "c", "e", "i", "l", "m", "o"}
Digit == {"0", "1", "2", "3", "4", "5", "6", "7", "8", "9"}

is_whitespace(c) == c = " "
is_alphanumeric(c) == c \in UpperCase \cup LowerCase \cup Digit
lower_char(c) == CASE c = "A" -> "a" [] c = "B" -> "b" [] OTHER -> c

RECURSIVE trim_start(_)
trim_start(s) ==
    IF s # <<>> /\ is_whitespace(Head(s)) THEN trim_start(Tail(s)) ELSE s

RECURSIVE trim_end(_)
trim_end(s) ==
    IF s # <<>> /\ is_whitespace(s[Len(s)])
    THEN trim_end(SubSeq(s, 1, Len(s) - 1))
    ELSE s

trim_start_only(s) == trim_start(s)
trim(s) == trim_end(trim_start(s))

to_lowercase(s) == [i \in 1..Len(s) |-> lower_char(s[i])]

\* utils.rs sanitize_id: trim, lowercase, every non-alphanumeric char to '_'
sanitize_id_blanks(text) ==
    LET t == to_lowercase(trim(text))
    IN  [i \in 1..Len(t) |-> IF is_alphanumeric(t[i]) THEN t[i] ELSE " "]
sanitize_id(text) ==
    LET t == to_lowercase(trim(text))
    IN  [i \in 1..Len(t) |-> IF is_alphanumeric(t[i]) THEN t[i] ELSE "_"]

\* Display of a string record id (Id::to_string): an id made only of ASCII
\* letters, digits and '_' and not of digits alone prints as it is, every
\* other id prints between the brackets U+27E8 and U+27E9 (here "<", ">").
id_to_string(id) ==
    IF /\ \A i \in 1..Len(id) : is_alphanumeric(id[i]) \/ id[i] = "_"
       /\ \E i \in 1..Len(id) : id[i] \notin Digit
    THEN id
    ELSE <<"<">> \o id \o <<">">>

\* Uuid::new_v4().to_string(): the n-th value drawn, in hyphenated form
Hex == <<"1", "2", "3", "4", "5", "6", "7", "8", "9", "a", "b", "c">>
new_v4(n) == <<Hex[((n - 1) \div 12) + 1], Hex[((n - 1) % 12) + 1], "-", "4">>

Range(s) == {s[i] : i \in 1..Len(s)}

----------------------------------------------------------------------------
(* The graph store *)

\* a record id (Thing) and a plain string value bound to a query parameter
Thing(tb, id) == [tb |-> tb, id |-> id]
StringValue(s) == [str |-> s]
IsThing(v) == "tb" \in DOMAIN v

\* outcome of one store call: it fails only within the fault budget
Outcomes == IF faults < MaxFaults THEN {TRUE, FALSE} ELSE {TRUE}
Charge(ok) == faults' = IF ok THEN faults ELSE faults + 1

\* db.create((table, id)).content(rec): a new record under a fresh id
CreateNodeOnce(table, rec) ==
    IF \E r \in table : [r EXCEPT !.id = rec.id] = rec THEN table
    ELSE table \cup {rec}
CreateNode(table, rec) == table \cup {rec}

\* db.upsert((table, id)).content(rec): create the record or replace it
InsertNode(table, rec) == table \cup {rec}
UpsertKeepsOld(table, rec) ==
    IF \E r \in table : r.id = rec.id THEN table ELSE table \cup {rec}
UpsertNode(table, rec) == {r \in table : r.id # rec.id} \cup {rec}

\* db.update((table, key)).merge(patch) and UPDATE type::thing(table, key) SET:
\* changes the record stored under key; a key that names no record changes
\* nothing (UPSERT, not UPDATE, creates records)
MergeMap(m, patch) ==
    [k \in DOMAIN m \cup DOMAIN patch |->
        IF k \in DOMAIN patch THEN patch[k] ELSE m[k]]
MergeNode(table, key, metadata) ==
    {IF r.id = key THEN [r EXCEPT !.metadata = MergeMap(@, metadata)] ELSE r :
        r \in table}
SetName(table, key, name) ==
    {IF r.id = key THEN [r EXCEPT !.name = name] ELSE r : r \in table}

\* RELATE $from -> edge -> $to: a new edge record each time it runs; it is
\* an error when an endpoint is not a record id
Relate(edges, from, to, props) ==
    IF IsThing(from) /\ IsThing(to)
    THEN edges (+) SetToBag({[in |-> from, out |-> to, props |-> props]})
    ELSE edges

----------------------------------------------------------------------------
(* Inputs *)

\* names that a reply of the language model can carry
NameA == <<"A">>
NameLowA == <<"a">>
NameSpA == <<" ", "a">>
NameAdotB == <<"a", ".", "b">>
NameBlank == <<" ">>

NameAlice == <<"A", "l", "i", "c", "e">>
NameBob == <<"B", "o", "b">>
NameAcme == <<"A", "c", "m", "e">>

\* the two pages of the scenario document
PageAliceBob == "Alice met Bob."
PageBobAcme == "Bob works at Acme."

\* DocSummaryResult values the model can reply with
Summary1 == [title |-> "T1", summary |-> "S1",
             tags |-> <<NameA>>, keywords |-> <<NameLowA, NameSpA>>]
Summary2 == [title |-> "T2", summary |-> "S2",
             tags |-> <<NameBlank>>, keywords |-> <<NameAdotB>>]

\* what the inference endpoint does with one request: the transport fails or
\* the status is not a success ("error"), the content does not parse as a
\* DocSummaryResult even after repair ("unparsable"), or it parses
FailedReplies == {[kind |-> "error"], [kind |-> "unparsable"]}
SummaryAliceBob == [title |-> "T1", summary |-> "S1",
                    tags |-> <<>>, keywords |-> <<NameAlice, NameBob>>]
SummaryBobAcme == [title |-> "T2", summary |-> "S2",
                   tags |-> <<>>, keywords |-> <<NameBob, NameAcme>>]
Replies(txt) ==
    FailedReplies \cup
    {[kind |-> "parsed",
      result |-> CASE txt = "q1" -> Summary2
                   [] txt = PageAliceBob -> SummaryAliceBob
                   [] txt = PageBobAcme -> SummaryBobAcme
                   [] OTHER -> Summary1]}
ScenarioReplies == Replies(PageAliceBob) \cup Replies(PageBobAcme)
AllReplies == Replies("p1") \cup Replies("q1")
ParentReplies == {[kind |-> "error"], [kind |-> "parsed", result |-> Summary1]}

\* the failure summary of ingest.rs:141 and extractor.rs:71 (a Korean text)
SummaryFailed == "yoyak silpae"

\* extractor.rs summarize_document: Err on a failed request, the default
\* result on unparsable content
summarize_document(reply) ==
    CASE reply.kind = "error" -> [ok |-> FALSE]
      [] reply.kind = "unparsable" ->
            [ok |-> TRUE,
             val |-> [title |-> "Untitled", summary |-> SummaryFailed,
                      tags |-> <<>>, keywords |-> <<>>]]
      [] OTHER -> [ok |-> TRUE, val |-> reply.result]

\* what extract_pages_from_pdf returns for a file
Pages(ps) == [ok |-> TRUE, pages |-> ps]
NoPages == [ok |-> FALSE, pages |-> <<>>]

\* a directory entry: its file name, its extension and its extraction result
PdfGood1 == [name |-> "one.pdf", ext |-> "pdf", extract |-> Pages(<<"p1">>)]
PdfGood2 == [name |-> "two.pdf", ext |-> "pdf", extract |-> Pages(<<"q1", "q2">>)]
PdfBroken == [name |-> "bad.pdf", ext |-> "pdf", extract |-> NoPages]
PdfEmpty == [name |-> "nil.pdf", ext |-> "pdf", extract |-> Pages(<<>>)]
NotPdf == [name |-> "a.txt", ext |-> "txt", extract |-> NoPages]

PdfScenario == [name |-> "story.pdf", ext |-> "pdf",
                extract |-> Pages(<<PageAliceBob, PageBobAcme>>)]

Entry(f) == [err |-> FALSE, file |-> f]
EntryError == [err |-> TRUE, file |-> NotPdf]

\* what fs::read_dir gives for the path: an error, or the entries, each of
\* which is an error or a file
Directories ==
    {[readable |-> FALSE, entries |-> <<>>],
     [readable |-> TRUE, entries |-> <<Entry(PdfGood1), EntryError>>],
     [readable |-> TRUE, entries |-> <<Entry(NotPdf)>>],
     [readable |-> TRUE, entries |-> <<Entry(PdfBroken), Entry(PdfGood2)>>],
     [readable |-> TRUE, entries |-> <<Entry(PdfGood1), Entry(NotPdf),
                                       Entry(PdfEmpty), Entry(PdfGood2)>>]}

ScenarioDirectory == [readable |-> TRUE, entries |-> <<Entry(PdfScenario)>>]

PageTitle == <<"Page 1", "Page 2", "Page 3">>

----------------------------------------------------------------------------
(* Stage 1: ingest_documents *)

IngestIdle ==
    [pc |-> "idle", pdf_files |-> <<>>, idx |-> 0, session_id |-> <<>>,
     doc_id |-> <<>>, chunk_uuid |-> <<>>, i |-> 0, success_count |-> 0,
     failed |-> FALSE, docs |-> <<>>, log |-> <<>>, scan |-> "none",
     ops |-> <<>>]

Returned(pc) == pc \in {"idle", "ok", "err", "crashed"}
\* the application invokes one command at a time and awaits its result
NoCommandRuns ==
    /\ Returned(ing.pc)
    /\ \A p \in DOMAIN cg : Returned(cg[p].pc)
    /\ Returned(sg.pc)
    /\ call.fn # "fetch_graph_data"

\* lines 48-56: the pdf files among the entries; the first entry that is an
\* error ends the command
RECURSIVE CollectPdfs(_)
CollectPdfs(entries) ==
    IF entries = <<>> THEN [ok |-> TRUE, files |-> <<>>]
    ELSE IF Head(entries).err THEN [ok |-> FALSE, files |-> <<>>]
    ELSE LET rest == CollectPdfs(Tail(entries))
         IN  IF Head(entries).file.ext = "pdf"
             THEN [ok |-> rest.ok, files |-> <<Head(entries).file>> \o rest.files]
             ELSE rest

ScanDirectory(dir) ==
    IF dir.readable THEN CollectPdfs(dir.entries) ELSE [ok |-> FALSE, files |-> <<>>]

CurrentFile == ing.pdf_files[ing.idx]
CurrentPages == CurrentFile.extract.pages

\* lines 48-59: read_dir or an entry fails, or the directory has no pdf file
ScanFailsAfterSession(dir) ==
    /\ NoCommandRuns
    /\ hist.ingestRuns < hist.ingests
    /\ ~ScanDirectory(dir).ok \/ ScanDirectory(dir).files = <<>>
    /\ event' = CreateNode(event, [id |-> new_v4(uuids + 1), summary |-> "PDF Ingest"])
    /\ uuids' = uuids + 1
    /\ ing' = [IngestIdle EXCEPT
                !.pc = "err",
                !.scan = IF ScanDirectory(dir).ok THEN "no_pdf" ELSE "io_error"]
    /\ hist' = [hist EXCEPT !.ingestRuns = @ + 1]
    /\ UNCHANGED <<call, document, chunk, entity, imported, contains, mentions,
                   related_to, faults, cg, sg>>
IngestScanFails(dir) ==
    /\ NoCommandRuns
    /\ hist.ingestRuns < hist.ingests
    /\ LET scan == ScanDirectory(dir)
       IN  ~scan.ok \/ scan.files = <<>>
    /\ ing' = [IngestIdle EXCEPT
                !.pc = "err",
                !.scan = IF ScanDirectory(dir).ok THEN "no_pdf" ELSE "io_error"]
    /\ hist' = [hist EXCEPT !.ingestRuns = @ + 1]
    /\ UNCHANGED <<call, store, uuids, faults, cg, sg>>

\* lines 48-68: the pdf files are listed and the Session node is created
IngestSession(dir, ok) ==
    /\ NoCommandRuns
    /\ hist.ingestRuns < hist.ingests
    /\ LET scan == ScanDirectory(dir)
           session_id == new_v4(uuids + 1)
       IN  /\ scan.ok /\ scan.files # <<>>
           /\ uuids' = uuids + 1
           /\ Charge(ok)
           /\ event' = IF ok
                       THEN CreateNode(event, [id |-> session_id, summary |-> "PDF Ingest"])
                       ELSE event
           /\ ing' = IF ok
                     THEN [IngestIdle EXCEPT !.pc = "file", !.pdf_files = scan.files,
                                             !.idx = 1, !.session_id = session_id]
                     ELSE [IngestIdle EXCEPT !.pc = "err", !.failed = TRUE]
    /\ hist' = [hist EXCEPT !.ingestRuns = @ + 1]
    /\ UNCHANGED <<call, document, chunk, entity, imported, contains, mentions,
                   related_to, cg, sg>>

\* lines 81-95: the page extraction fails or gives no page: next file
SkipFileAborts ==
    /\ ing.pc = "file" /\ ing.idx <= Len(ing.pdf_files)
    /\ ~CurrentFile.extract.ok \/ CurrentPages = <<>>
    /\ ing' = [ing EXCEPT !.pc = "err"]
    /\ UNCHANGED <<call, store, uuids, faults, cg, sg, hist>>
IngestSkipFile ==
    /\ ing.pc = "file" /\ ing.idx <= Len(ing.pdf_files)
    /\ ~CurrentFile.extract.ok \/ CurrentPages = <<>>
    /\ ing' = [ing EXCEPT !.idx = @ + 1]
    /\ UNCHANGED <<call, store, uuids, faults, cg, sg, hist>>

\* lines 102-106: the summary of the Document, or its default
ParentSummary(reply, filename) ==
    LET res == summarize_document(reply)
    IN  IF res.ok THEN res.val
        ELSE [title |-> filename, summary |-> "Parent Summary Failed",
              tags |-> <<>>, keywords |-> <<>>]

\* lines 97-117: the Document node of the current file is created
IngestDocumentWithSession(reply, ok) ==
    /\ ing.pc = "file" /\ ing.idx <= Len(ing.pdf_files)
    /\ CurrentFile.extract.ok /\ CurrentPages # <<>>
    /\ LET parent_summary == ParentSummary(reply, CurrentFile.name)
           doc_id == new_v4(uuids + 1)
           node == [id |-> doc_id, filename |-> CurrentFile.name,
                    metadata |-> [title |-> parent_summary.title,
                                  summary |-> parent_summary.summary]]
       IN  /\ uuids' = uuids + 1
           /\ Charge(ok)
           /\ document' = IF ok THEN CreateNode(document, node) ELSE document
           /\ event' = CreateNode(event, [id |-> doc_id, summary |-> "PDF Ingest"])
           /\ ing' = IF ok
                     THEN [ing EXCEPT !.pc = "imported", !.doc_id = doc_id,
                               !.docs = Append(@, [file |-> CurrentFile.name,
                                                   doc |-> doc_id]),
                               !.ops = <<[op |-> "document", id |-> doc_id]>>]
                     ELSE [ing EXCEPT !.pc = "err", !.failed = TRUE,
                               !.ops = <<[op |-> "document", id |-> doc_id]>>]
    /\ UNCHANGED <<call, chunk, entity, imported, contains, mentions,
                   related_to, cg, sg, hist>>
IngestDocument(reply, ok) ==
    /\ ing.pc = "file" /\ ing.idx <= Len(ing.pdf_files)
    /\ CurrentFile.extract.ok /\ CurrentPages # <<>>
    /\ LET parent_summary == ParentSummary(reply, CurrentFile.name)
           doc_id == new_v4(uuids + 1)
           node == [id |-> doc_id, filename |-> CurrentFile.name,
                    metadata |-> [title |-> parent_summary.title,
                                  summary |-> parent_summary.summary]]
       IN  /\ uuids' = uuids + 1
           /\ Charge(ok)
           /\ document' = IF ok THEN CreateNode(document, node) ELSE document
           /\ ing' = IF ok
                     THEN [ing EXCEPT !.pc = "imported", !.doc_id = doc_id,
                               !.docs = Append(@, [file |-> CurrentFile.name,
                                                   doc |-> doc_id]),
                               !.ops = <<[op |-> "document", id |-> doc_id]>>]
                     ELSE [ing EXCEPT !.pc = "err", !.failed = TRUE,
                               !.ops = <<[op |-> "document", id |-> doc_id]>>]
    /\ UNCHANGED <<call, event, chunk, entity, imported, contains, mentions,
                   related_to, cg, sg, hist>>

\* line 120: RELATE $e->imported->$d, both parameters bound to strings; the
\* result is dropped by .ok()
IngestImported(ok) ==
    /\ ing.pc = "imported"
    /\ LET e == StringValue(ing.session_id)
           d == StringValue(<<"document:">> \o ing.doc_id)
       IN  /\ imported' = IF ok THEN Relate(imported, e, d, <<>>) ELSE imported
           /\ ing' = [ing EXCEPT !.pc = "unit", !.i = 0,
                                 !.failed = @ \/ ~ok \/ ~IsThing(e) \/ ~IsThing(d),
                                 !.ops = Append(@, [op |-> "imported",
                                                    id |-> ing.doc_id])]
    /\ Charge(ok)
    /\ UNCHANGED <<call, event, document, chunk, entity, contains, mentions,
                   related_to, uuids, cg, sg, hist>>

\* lines 138-145: the summary of unit i, or its default
ChunkSummaryStaleTags(reply, i) ==
    LET res == summarize_document(reply)
    IN  IF res.ok THEN res.val
        ELSE [title |-> PageTitle[i + 1], summary |-> SummaryFailed,
              tags |-> Summary1.tags, keywords |-> Summary1.keywords]
ChunkSummary(reply, i) ==
    LET res == summarize_document(reply)
    IN  IF res.ok THEN res.val
        ELSE [title |-> PageTitle[i + 1], summary |-> SummaryFailed,
              tags |-> <<>>, keywords |-> <<>>]

\* lines 148-162: the Chunk node of unit i (0-based) with text txt
ChunkNode(id, txt, i, chunk_res) ==
    [id |-> id, content |-> txt, page_index |-> i, embedding |-> <<>>,
     metadata |-> [title |-> chunk_res.title, summary |-> chunk_res.summary,
                   tags |-> chunk_res.tags, keywords |-> chunk_res.keywords,
                   page_number |-> i + 1]]

\* lines 138, 156: the calls of unit i in the order the code issues them: the
\* summary request, then the create of the Chunk node
UnitOps(ops, i, chunk_uuid) ==
    ops \o <<[op |-> "summarize", id |-> i], [op |-> "chunk", id |-> chunk_uuid]>>

\* lines 130-163: unit i is summarized and its Chunk node is created
IngestChunk(reply, ok) ==
    /\ ing.pc = "unit"
    /\ LET chunk_uuid == new_v4(uuids + 1)
           txt == CurrentPages[ing.i + 1]
           chunk_res == ChunkSummary(reply, ing.i)
       IN  /\ reply \in Replies(txt)
           /\ uuids' = uuids + 1
           /\ Charge(ok)
           /\ chunk' = IF ok
                       THEN CreateNode(chunk, ChunkNode(chunk_uuid, txt, ing.i, chunk_res))
                       ELSE chunk
           /\ ing' = IF ok
                     THEN [ing EXCEPT !.pc = "contains", !.chunk_uuid = chunk_uuid,
                               !.log = Append(@, [file |-> CurrentFile.name,
                                                  doc |-> ing.doc_id,
                                                  unit |-> ing.i,
                                                  text |-> txt,
                                                  reply |-> reply,
                                                  chunk |-> chunk_uuid]),
                               !.ops = UnitOps(@, ing.i, chunk_uuid)]
                     ELSE [ing EXCEPT !.pc = "err", !.failed = TRUE,
                               !.ops = UnitOps(@, ing.i, chunk_uuid)]
           /\ hist' = IF ok
                      THEN [hist EXCEPT !.newChunk = TRUE, !.settled = FALSE]
                      ELSE hist
    /\ UNCHANGED <<call, event, document, entity, imported, contains, mentions,
                   related_to, cg, sg>>

\* lines 170-181: RELATE $d->contains->$c, the result dropped by .ok(); after
\* the last unit the file is counted and the next file begins
IngestContains(ok) ==
    /\ ing.pc = "contains"
    /\ contains' = IF ok
                   THEN Relate(contains, Thing("document", ing.doc_id),
                               Thing("chunk", ing.chunk_uuid), <<>>)
                   ELSE contains
    /\ Charge(ok)
    /\ ing' = IF ing.i + 1 < Len(CurrentPages)
              THEN [ing EXCEPT !.pc = "unit", !.i = @ + 1, !.failed = @ \/ ~ok,
                               !.ops = Append(@, [op |-> "contains",
                                                  id |-> ing.chunk_uuid])]
              ELSE [ing EXCEPT !.pc = "file", !.idx = @ + 1, !.failed = @ \/ ~ok,
                               !.success_count = @ + 1,
                               !.ops = Append(@, [op |-> "contains",
                                                  id |-> ing.chunk_uuid])]
    /\ UNCHANGED <<call, event, document, chunk, entity, imported, mentions,
                   related_to, uuids, cg, sg, hist>>

\* line 184: every file has been handled
IngestDone ==
    /\ ing.pc = "file" /\ ing.idx > Len(ing.pdf_files)
    /\ ing' = [ing EXCEPT !.pc = "ok"]
    /\ UNCHANGED <<call, store, uuids, faults, cg, sg, hist>>

----------------------------------------------------------------------------
(* Stage 2: construct_graph *)

\* the construct_graph invocations: GraphSelect lets any idle one take the
\* command
GraphIdle ==
    [pc |-> "idle", sel |-> <<>>, k |-> 0, topics |-> {}, topic |-> <<>>,
     success_count |-> 0, total |-> 0, writes |-> 0, rerun |-> FALSE,
     failed |-> FALSE, upserted |-> FALSE, ops |-> <<>>]

\* line 196: WHERE metadata.step2_processed != true
IsProcessed(c) ==
    /\ "step2_processed" \in DOMAIN c.metadata
    /\ c.metadata.step2_processed = TRUE
Unprocessed == {c \in chunk : ~IsProcessed(c)}

Min(a, b) == IF a < b THEN a ELSE b

\* line 196: what SELECT ... LIMIT can return: the query has no ORDER BY, so
\* any BatchLimit of the matching rows (all of them when there are fewer), in
\* any order
SelectUnlimited(rows) ==
    {s \in [1..Cardinality(rows) -> rows] :
        \A i, j \in DOMAIN s : i # j => s[i] # s[j]}
SelectLimited(rows) ==
    {s \in [1..Min(BatchLimit, Cardinality(rows)) -> rows] :
        \A i, j \in DOMAIN s : i # j => s[i] # s[j]}

\* lines 219-241: the trimmed tags and keywords of a chunk, as a HashSet
Topics(c) ==
    {trim(s) : s \in Range(c.metadata.tags) \cup Range(c.metadata.keywords)}
\* line 245: empty topics are passed over
Candidates(topics) == {t \in topics : t # <<>>}

\* lines 254-261: the Entity node of a topic
KeywordEntity(topic) ==
    [id |-> sanitize_id(topic), name |-> topic, category |-> "Keyword",
     description |-> <<"Extracted keyword: ">> \o topic]

\* an upsert of rec meets a stored record of the same id with other content
Replaces(table, rec) == \E r \in table : r.id = rec.id /\ r # rec

\* where the loop body of a chunk starts, given its topics
AfterTopics(topics) == IF Candidates(topics) = {} THEN "mark" ELSE "entity"

CurrentChunk(p) == cg[p].sel[cg[p].k]

\* lines 196-200: the selection query fails
GraphSelectFails(p) ==
    /\ NoCommandRuns
    /\ hist.graphRuns + hist.saveRuns < MaxGraphRuns
    /\ faults < MaxFaults
    /\ faults' = faults + 1
    /\ cg' = [cg EXCEPT ![p] = [GraphIdle EXCEPT !.pc = "err"]]
    /\ hist' = [hist EXCEPT !.graphRuns = @ + 1]
    /\ UNCHANGED <<call, store, uuids, ing, sg>>

\* lines 196-209: the unprocessed chunks are selected; with none the command
\* returns
GraphBegin(p, sel) ==
    /\ hist.graphRuns + hist.saveRuns < MaxGraphRuns
    /\ sel \in SelectLimited(Unprocessed)
    /\ cg' = [cg EXCEPT ![p] =
                IF sel = <<>>
                THEN [GraphIdle EXCEPT !.pc = "ok", !.rerun = hist.settled]
                ELSE [GraphIdle EXCEPT !.pc = AfterTopics(Topics(sel[1])),
                                       !.sel = sel, !.k = 1,
                                       !.topics = Topics(sel[1]),
                                       !.total = Len(sel),
                                       !.rerun = hist.settled]]
    /\ hist' = [hist EXCEPT !.graphRuns = @ + 1, !.newChunk = FALSE,
                            !.covered = Len(sel) = Cardinality(Unprocessed),
                            !.settled = IF sel = <<>> THEN TRUE ELSE @]
    /\ UNCHANGED <<call, store, uuids, faults, ing, sg>>

\* the command is invoked while no other command runs
GraphSelect(p, sel) == NoCommandRuns /\ GraphBegin(p, sel)

\* the command is invoked while another construct_graph invocation may be
\* running: a Tauri async command is not serialized with the others
GraphSelectBeside(p, sel) ==
    /\ Returned(ing.pc) /\ Returned(sg.pc) /\ Returned(cg[p].pc)
    /\ GraphBegin(p, sel)

\* the store calls issued for the chunk in hand, in the order of issue; the
\* list starts again with the first call for the next chunk
ChunkOps(ops, rec) ==
    IF ops # <<>> /\ ops[Len(ops)].op = "mark" THEN <<rec>> ELSE Append(ops, rec)

\* lines 244-262: one topic of the chunk is taken and its Entity upserted; the
\* result is dropped by .ok()
GraphEntityLinksFirst(p, topic, ok) ==
    /\ cg[p].pc = "entity"
    /\ topic \in Candidates(cg[p].topics)
    /\ mentions' = IF ok
                   THEN Relate(mentions, Thing("chunk", CurrentChunk(p).id),
                               Thing("entity", sanitize_id(topic)), <<>>)
                   ELSE mentions
    /\ Charge(ok)
    /\ cg' = [cg EXCEPT ![p].pc = "mentions", ![p].topic = topic,
                        ![p].writes = @ + 1, ![p].failed = @ \/ ~ok,
                        ![p].upserted = FALSE,
                        ![p].ops = ChunkOps(@, [op |-> "mentions",
                                                chunk |-> CurrentChunk(p).id,
                                                entity |-> sanitize_id(topic)])]
    /\ UNCHANGED <<call, event, document, chunk, entity, imported, contains,
                   related_to, uuids, ing, sg, hist>>
GraphEntity(p, topic, ok) ==
    /\ cg[p].pc = "entity"
    /\ topic \in Candidates(cg[p].topics)
    /\ entity' = IF ok THEN UpsertNode(entity, KeywordEntity(topic)) ELSE entity
    /\ Charge(ok)
    /\ cg' = [cg EXCEPT ![p].pc = "mentions", ![p].topic = topic,
                        ![p].writes = @ + 1, ![p].failed = @ \/ ~ok,
                        ![p].upserted = ok,
                        ![p].ops = ChunkOps(@, [op |-> "upsert",
                                                chunk |-> CurrentChunk(p).id,
                                                entity |-> sanitize_id(topic)])]
    /\ UNCHANGED <<call, event, document, chunk, imported, contains, mentions,
                   related_to, uuids, ing, sg, hist>>

\* lines 265-269: RELATE $c -> mentions -> $e, the result dropped by .ok()
GraphMentionsBreaks(p, ok) ==
    /\ cg[p].pc = "mentions"
    /\ mentions' = IF ok
                   THEN Relate(mentions, Thing("chunk", CurrentChunk(p).id),
                               Thing("entity", sanitize_id(cg[p].topic)), <<>>)
                   ELSE mentions
    /\ Charge(ok)
    /\ cg' = [cg EXCEPT ![p].pc = "mark", ![p].topics = {},
                        ![p].writes = @ + 1, ![p].failed = @ \/ ~ok,
                        ![p].ops = ChunkOps(@, [op |-> "mentions",
                                                chunk |-> CurrentChunk(p).id,
                                                entity |-> sanitize_id(cg[p].topic)])]
    /\ UNCHANGED <<call, event, document, chunk, entity, imported, contains,
                   related_to, uuids, ing, sg, hist>>
GraphMentions(p, ok) ==
    /\ cg[p].pc = "mentions"
    /\ mentions' = IF ok
                   THEN Relate(mentions, Thing("chunk", CurrentChunk(p).id),
                               Thing("entity", sanitize_id(cg[p].topic)), <<>>)
                   ELSE mentions
    /\ Charge(ok)
    /\ LET rest == cg[p].topics \ {cg[p].topic}
       IN  cg' = [cg EXCEPT ![p].pc = AfterTopics(rest), ![p].topics = rest,
                            ![p].writes = @ + 1, ![p].failed = @ \/ ~ok,
                            ![p].ops = ChunkOps(@, [op |-> "mentions",
                                                    chunk |-> CurrentChunk(p).id,
                                                    entity |-> sanitize_id(cg[p].topic)])]
    /\ UNCHANGED <<call, event, document, chunk, entity, imported, contains,
                   related_to, uuids, ing, sg, hist>>

\* line 273: the record key of the update, chunk_thing.id.to_string()
MarkKey(id) == id_to_string(id)

\* lines 273-282: the chunk is marked by a merge into its metadata, the result
\* dropped by .ok(); the chunk is counted; after the last chunk the command
\* returns Ok
GraphMarkOverwrites(p, ok) ==
    /\ cg[p].pc = "mark"
    /\ LET key == CurrentChunk(p).id
       IN  /\ chunk' = IF ok
                       THEN {IF r.id = key
                             THEN [r EXCEPT !.metadata = [step2_processed |-> TRUE]]
                             ELSE r : r \in chunk}
                       ELSE chunk
           /\ cg' = [cg EXCEPT
                ![p] = IF cg[p].k < Len(cg[p].sel)
                       THEN [@ EXCEPT !.k = @ + 1,
                                      !.topics = Topics(cg[p].sel[cg[p].k + 1]),
                                      !.pc = AfterTopics(Topics(cg[p].sel[cg[p].k + 1])),
                                      !.success_count = @ + 1,
                                      !.writes = @ + 1,
                                      !.failed = @ \/ ~ok,
                                      !.ops = ChunkOps(@, [op |-> "mark",
                                                           chunk |-> CurrentChunk(p).id])]
                       ELSE [@ EXCEPT !.pc = "ok",
                                      !.success_count = @ + 1,
                                      !.writes = @ + 1,
                                      !.failed = @ \/ ~ok,
                                      !.ops = ChunkOps(@, [op |-> "mark",
                                                           chunk |-> CurrentChunk(p).id])]]
    /\ Charge(ok)
    /\ hist' = IF cg[p].k < Len(cg[p].sel) THEN hist
               ELSE [hist EXCEPT !.settled = ~hist.newChunk /\ hist.covered]
    /\ UNCHANGED <<call, event, document, entity, imported, contains, mentions,
                   related_to, uuids, ing, sg>>
GraphMark(p, ok) ==
    /\ cg[p].pc = "mark"
    /\ LET key == MarkKey(CurrentChunk(p).id)
       IN  /\ chunk' = IF ok
                       THEN MergeNode(chunk, key, [step2_processed |-> TRUE])
                       ELSE chunk
           /\ cg' = [cg EXCEPT
                ![p] = IF cg[p].k < Len(cg[p].sel)
                       THEN [@ EXCEPT !.k = @ + 1,
                                      !.topics = Topics(cg[p].sel[cg[p].k + 1]),
                                      !.pc = AfterTopics(Topics(cg[p].sel[cg[p].k + 1])),
                                      !.success_count = @ + 1,
                                      !.writes = @ + 1,
                                      !.failed = @ \/ ~ok,
                                      !.ops = ChunkOps(@, [op |-> "mark",
                                                           chunk |-> CurrentChunk(p).id])]
                       ELSE [@ EXCEPT !.pc = "ok",
                                      !.success_count = @ + 1,
                                      !.writes = @ + 1,
                                      !.failed = @ \/ ~ok,
                                      !.ops = ChunkOps(@, [op |-> "mark",
                                                           chunk |-> CurrentChunk(p).id])]]
    /\ Charge(ok)
    /\ hist' = IF cg[p].k < Len(cg[p].sel) THEN hist
               ELSE [hist EXCEPT !.settled = ~hist.newChunk /\ hist.covered]
    /\ UNCHANGED <<call, event, document, entity, imported, contains, mentions,
                   related_to, uuids, ing, sg>>

\* lines 244-277: the process stops while the run is in the write sequence of
\* a chunk: before an Entity upsert, between the upsert and its Mentions edge,
\* or before the mark; what has been written stays, the rest is not done
GraphCrash(p) ==
    /\ cg[p].pc \in {"entity", "mentions", "mark"}
    /\ hist.graphRuns + hist.saveRuns < MaxGraphRuns
    /\ cg' = [cg EXCEPT ![p].pc = "crashed"]
    /\ hist' = [hist EXCEPT !.settled = FALSE,
                            !.interrupted = @ \cup {CurrentChunk(p).id}]
    /\ UNCHANGED <<call, store, uuids, faults, ing, sg>>

----------------------------------------------------------------------------
(* The helper save_graph_data *)

SaveIdle ==
    [pc |-> "idle", chunk_id |-> Thing("chunk", <<>>),
     data |-> [entities |-> <<>>, relations |-> <<>>],
     e |-> 0, r |-> 0, failed |-> FALSE, replaced |-> FALSE]

NameB == <<"B">>

\* LlmExtractionResult values (the graph variant of the extraction)
Extraction1 ==
    [entities |-> <<[name |-> NameA, category |-> "Person", summary |-> "s1"]>>,
     relations |-> <<[head |-> NameA, relation |-> "works_at", tail |-> NameB,
                      reason |-> "r1"]>>]
Extraction2 ==
    [entities |-> <<[name |-> NameLowA, category |-> "Tech", summary |-> "s2"],
                    [name |-> NameB, category |-> "Org", summary |-> "s3"]>>,
     relations |-> <<[head |-> NameB, relation |-> "uses", tail |-> NameSpA,
                      reason |-> "r2"]>>]
Extractions == {Extraction1, Extraction2}

\* lines 326-333: the Entity node of an extracted entity
ExtractedEntity(ent) ==
    [id |-> sanitize_id(ent.name), name |-> ent.name, category |-> ent.category,
     description |-> ent.summary]

\* where the function continues once entity e and relation r are done
SaveNext(data, e, r) ==
    IF e < Len(data.entities) THEN "entity"
    ELSE IF r < Len(data.relations) THEN "head"
    ELSE "ok"

\* lines 310-315: the function is called for a stored chunk
SaveStart(c, data) ==
    /\ NoCommandRuns
    /\ hist.graphRuns + hist.saveRuns < MaxGraphRuns
    /\ c \in chunk
    /\ sg' = [SaveIdle EXCEPT !.pc = SaveNext(data, 0, 0),
                              !.chunk_id = Thing("chunk", c.id), !.data = data]
    /\ hist' = [hist EXCEPT !.saveRuns = @ + 1]
    /\ UNCHANGED <<call, store, uuids, faults, ing, cg>>

\* lines 317-335: the next entity is upserted; an error returns
SaveEntity(ok) ==
    /\ sg.pc = "entity"
    /\ LET ent == sg.data.entities[sg.e + 1]
       IN  entity' = IF ok THEN UpsertNode(entity, ExtractedEntity(ent)) ELSE entity
    /\ Charge(ok)
    /\ sg' = IF ok
             THEN [sg EXCEPT !.pc = "mentions",
                             !.replaced = Replaces(entity,
                                 ExtractedEntity(sg.data.entities[sg.e + 1]))]
             ELSE [sg EXCEPT !.pc = "err", !.failed = TRUE]
    /\ UNCHANGED <<call, event, document, chunk, imported, contains, mentions,
                   related_to, uuids, ing, cg, hist>>

\* lines 339-345: RELATE $c -> mentions -> $e; an error returns
SaveMentions(ok) ==
    /\ sg.pc = "mentions"
    /\ LET ent == sg.data.entities[sg.e + 1]
       IN  mentions' = IF ok
                       THEN Relate(mentions, sg.chunk_id,
                                   Thing("entity", sanitize_id(ent.name)), <<>>)
                       ELSE mentions
    /\ Charge(ok)
    /\ sg' = IF ok
             THEN [sg EXCEPT !.e = @ + 1, !.pc = SaveNext(sg.data, sg.e + 1, sg.r)]
             ELSE [sg EXCEPT !.pc = "err", !.failed = TRUE]
    /\ UNCHANGED <<call, event, document, chunk, entity, imported, contains,
                   related_to, uuids, ing, cg, hist>>

\* lines 357-358: UPDATE type::thing('entity', $id) SET name = $name for the
\* head; the result is dropped
SaveHead(ok) ==
    /\ sg.pc = "head"
    /\ LET rel == sg.data.relations[sg.r + 1]
       IN  entity' = IF ok
                     THEN SetName(entity, sanitize_id(rel.head), rel.head)
                     ELSE entity
    /\ Charge(ok)
    /\ sg' = [sg EXCEPT !.pc = "tail", !.failed = @ \/ ~ok]
    /\ UNCHANGED <<call, event, document, chunk, imported, contains, mentions,
                   related_to, uuids, ing, cg, hist>>

\* lines 359-360: the same UPDATE for the tail; the result is dropped
SaveTail(ok) ==
    /\ sg.pc = "tail"
    /\ LET rel == sg.data.relations[sg.r + 1]
       IN  entity' = IF ok
                     THEN SetName(entity, sanitize_id(rel.tail), rel.tail)
                     ELSE entity
    /\ Charge(ok)
    /\ sg' = [sg EXCEPT !.pc = "related", !.failed = @ \/ ~ok]
    /\ UNCHANGED <<call, event, document, chunk, imported, contains, mentions,
                   related_to, uuids, ing, cg, hist>>

\* lines 363-378: RELATE $h -> related_to -> $t with the relation and the
\* reason; an error returns
SaveRelation(ok) ==
    /\ sg.pc = "related"
    /\ LET rel == sg.data.relations[sg.r + 1]
       IN  related_to' =
                IF ok
                THEN Relate(related_to, Thing("entity", sanitize_id(rel.head)),
                            Thing("entity", sanitize_id(rel.tail)),
                            <<rel.relation, rel.reason>>)
                ELSE related_to
    /\ Charge(ok)
    /\ sg' = IF ok
             THEN [sg EXCEPT !.r = @ + 1, !.pc = SaveNext(sg.data, sg.e, sg.r + 1)]
             ELSE [sg EXCEPT !.pc = "err", !.failed = TRUE]
    /\ UNCHANGED <<call, event, document, chunk, entity, imported, contains,
                   mentions, uuids, ing, cg, hist>>

----------------------------------------------------------------------------
(* llm/extractor.rs: clean_and_repair_json *)

\* the first and the last position at which pat occurs in s, 0 when it does
\* not occur (str::find, str::rfind)
OccursAt(s, i, pat) ==
    /\ i + Len(pat) - 1 <= Len(s)
    /\ SubSeq(s, i, i + Len(pat) - 1) = pat
Occurrences(s, pat) == {i \in 1..Len(s) : OccursAt(s, i, pat)}
find(s, pat) ==
    IF Occurrences(s, pat) = {} THEN 0
    ELSE CHOOSE i \in Occurrences(s, pat) : \A j \in Occurrences(s, pat) : i <= j
rfind(s, pat) ==
    IF Occurrences(s, pat) = {} THEN 0
    ELSE CHOOSE i \in Occurrences(s, pat) : \A j \in Occurrences(s, pat) : j <= i

\* s[i..] of Rust with the 1-based position i
From(s, i) == SubSeq(s, i, Len(s))
ends_with(s, c) == s # <<>> /\ s[Len(s)] = c
Count(s, c) == Cardinality({i \in 1..Len(s) : s[i] = c})

\* the Markdown code fence, three grave accents (written "~" here)
Fence == <<"~", "~", "~">>
FenceJson == <<"~", "~", "~", "j", "s", "o", "n">>

\* lines 223-230: trim; cut up to and with the first fence followed by json,
\* else the first fence; cut from the last fence; trim
strip_fence(input) ==
    LET c0 == trim(input)
        c1 == IF find(c0, FenceJson) # 0 THEN From(c0, find(c0, FenceJson) + 7)
              ELSE IF find(c0, Fence) # 0 THEN From(c0, find(c0, Fence) + 3)
              ELSE c0
        c2 == IF rfind(c1, Fence) # 0 THEN SubSeq(c1, 1, rfind(c1, Fence) - 1)
              ELSE c1
    IN  trim(c2)

\* the position of the first character at or after i that is not whitespace
\* (Len(s) + 1 when there is none)
RECURSIVE SkipSpace(_, _)
SkipSpace(s, i) ==
    IF i <= Len(s) /\ is_whitespace(s[i]) THEN SkipSpace(s, i + 1) ELSE i

RECURSIVE Keep(_, _, _)
Keep(s, i, dropped) ==
    IF i > Len(s) THEN <<>>
    ELSE IF i \in dropped THEN Keep(s, i + 1, dropped)
    ELSE <<s[i]>> \o Keep(s, i + 1, dropped)

\* lines 234-235: replace_all of ,(\s*[\]}]) by $1: every comma that is
\* followed, after any whitespace, by ']' or '}' is removed
remove_trailing_commas(s) ==
    Keep(s, 1, {i \in 1..Len(s) :
                  /\ s[i] = ","
                  /\ SkipSpace(s, i + 1) <= Len(s)
                  /\ s[SkipSpace(s, i + 1)] \in {"]", "}"}})

\* lines 239-240: the position after a match of \s*""\s*:\s*".*?",? that
\* starts at i, 0 when there is no match at i
EmptyKeyEnd(s, i) ==
    LET q1 == SkipSpace(s, i)
        colon == SkipSpace(s, q1 + 2)
        q3 == SkipSpace(s, colon + 1)
        closing == {j \in (q3 + 1)..Len(s) : s[j] = "\""}
        q4 == CHOOSE j \in closing : \A k \in closing : j <= k
    IN  IF /\ q1 + 1 <= Len(s) /\ s[q1] = "\"" /\ s[q1 + 1] = "\""
           /\ colon <= Len(s) /\ s[colon] = ":"
           /\ q3 <= Len(s) /\ s[q3] = "\""
           /\ closing # {}
        THEN IF q4 + 1 <= Len(s) /\ s[q4 + 1] = "," THEN q4 + 2 ELSE q4 + 1
        ELSE 0

\* lines 239-240: replace_all of the matches by the empty text, leftmost
\* match first
RECURSIVE EmptyKeysFrom(_, _)
EmptyKeysFrom(s, i) ==
    IF i > Len(s) THEN <<>>
    ELSE IF EmptyKeyEnd(s, i) # 0 THEN EmptyKeysFrom(s, EmptyKeyEnd(s, i))
    ELSE <<s[i]>> \o EmptyKeysFrom(s, i + 1)
remove_empty_keys(s) == EmptyKeysFrom(s, 1)

RECURSIVE trim_end_matches(_, _)
trim_end_matches(s, c) ==
    IF ends_with(s, c) THEN trim_end_matches(SubSeq(s, 1, Len(s) - 1), c) ELSE s

\* lines 247-264: a text that does not end with '}' loses its trailing
\* commas, gets one ']' when it has more '[' than ']', one '}' when it has
\* more '{' than '}', and one more '}' when it still does not end with one
close_structures_brace_first(s) ==
    IF ends_with(s, "}") THEN s
    ELSE LET c1 == trim(trim_end_matches(s, ","))
             c2 == IF Count(c1, "{") > Count(c1, "}") THEN Append(c1, "}") ELSE c1
             c3 == IF Count(c1, "[") > Count(c1, "]") THEN Append(c2, "]") ELSE c2
         IN  IF ends_with(c3, "}") THEN c3 ELSE Append(c3, "}")
close_structures(s) ==
    IF ends_with(s, "}") THEN s
    ELSE LET c1 == trim(trim_end_matches(s, ","))
             c2 == IF Count(c1, "[") > Count(c1, "]") THEN Append(c1, "]") ELSE c1
             c3 == IF Count(c1, "{") > Count(c1, "}") THEN Append(c2, "}") ELSE c2
         IN  IF ends_with(c3, "}") THEN c3 ELSE Append(c3, "}")

\* lines 222-267
clean_and_repair_json(input) ==
    close_structures(remove_empty_keys(remove_trailing_commas(strip_fence(input))))

\* JSON objects that the model can reply with
DocList ==
    <<"{", "\"", "a", "\"", ":", "[", "1", "]", "}">>
DocNested ==
    <<"{", "\"", "a", "\"", ":", "{", "\"", "b", "\"", ":", "1", "}", "}">>
DocListOfObjects ==
    <<"{", "\"", "a", "\"", ":", "[", "{", "\"", "b", "\"", ":", "1", "}",
      "]", "}">>
DocListOfLists ==
    <<"{", "\"", "a", "\"", ":", "[", "[", "1", "]", "]", "}">>
Docs == {DocList, DocNested, DocListOfObjects, DocListOfLists}

\* a reply cut off by the token limit: every prefix of an object
Prefixes(doc) == {SubSeq(doc, 1, n) : n \in 0..(Len(doc) - 1)}

\* other replies: fenced, with trailing commas, with an empty key
RawFenced ==
    <<"~", "~", "~", "j", "s", "o", "n", " ", "{", "\"", "a", "\"", ":",
      "1", "}", " ", "~", "~", "~">>
RawBareFence ==
    <<"~", "~", "~", "{", "\"", "a", "\"", ":", "1", "}", "~", "~", "~">>
RawTrailingCommas ==
    <<"{", "\"", "a", "\"", ":", "[", "1", ",", " ", "]", ",", "}">>
RawDoubleComma ==
    <<"{", "\"", "a", "\"", ":", "[", "1", ",", ",", "]", "}">>
RawEmptyKey ==
    <<"{", "\"", "\"", ":", "\"", "x", "\"", ",", " ", "\"", "a", "\"",
      ":", "1", "}">>
RawCutAfterComma ==
    <<" ", "{", "\"", "a", "\"", ":", "[", "1", ",">>

RepairInputs ==
    UNION {Prefixes(doc) : doc \in Docs} \cup Docs \cup
    {RawFenced, RawBareFence, RawTrailingCommas, RawDoubleComma, RawEmptyKey,
     RawCutAfterComma}

\* the call clean_and_repair_json(input), one repair step at a time
RepairCall(input) ==
    [fn |-> "clean_and_repair_json", input |-> input, text |-> input,
     pc |-> "fence"]

RepairStep(pc, text, next) ==
    /\ call.fn = "clean_and_repair_json" /\ call.pc = pc
    /\ call' = [call EXCEPT !.text = text, !.pc = next]
    /\ UNCHANGED <<store, uuids, faults, ing, cg, sg, hist>>

RepairFence == RepairStep("fence", strip_fence(call.text), "commas")
RepairCommas == RepairStep("commas", remove_trailing_commas(call.text), "empty_key")
RepairEmptyKey == RepairStep("empty_key", remove_empty_keys(call.text), "close")
RepairClose == RepairStep("close", close_structures(call.text), "done")

\* replies with two fenced blocks and with an empty key inside a quoted text
RawTwoBlocks ==
    <<"~", "~", "~", "a", "~", "~", "~", "b", "~", "~", "~", "c", "~", "~", "~">>
RawQuotedEmptyKey ==
    <<"\"", "\"", "\"", ":", "\"", "a", "\"", "\"", ":", "\"", "b", "\"">>
StepInputs == RepairInputs \cup {RawTwoBlocks, RawQuotedEmptyKey}

\* the four repair steps of clean_and_repair_json, each on its own
RepairSteps == {"fence", "commas", "empty_key", "close"}
apply_step(step, x) ==
    CASE step = "fence" -> strip_fence(x)
      [] step = "commas" -> remove_trailing_commas(x)
      [] step = "empty_key" -> remove_empty_keys(x)
      [] step = "close" -> close_structures(x)

\* one repair step applied to a text, and then to its own result
StepCall(step, input) ==
    [fn |-> "repair_step", step |-> step, input |-> input, once |-> <<>>,
     twice |-> <<>>, pc |-> "call"]
StepOnce ==
    /\ call.fn = "repair_step" /\ call.pc = "call"
    /\ call' = [call EXCEPT !.once = apply_step(call.step, call.input),
                            !.pc = "once"]
    /\ UNCHANGED <<store, uuids, faults, ing, cg, sg, hist>>
StepTwice ==
    /\ call.fn = "repair_step" /\ call.pc = "once"
    /\ call' = [call EXCEPT !.twice = apply_step(call.step, call.once),
                            !.pc = "twice"]
    /\ UNCHANGED <<store, uuids, faults, ing, cg, sg, hist>>

----------------------------------------------------------------------------
(* utils.rs: chunk_text (main.rs:250-266 holds the same function) *)

\* the texts of at most n characters over a letter and a blank
RECURSIVE Texts(_)
Texts(n) ==
    IF n = 0 THEN {<<>>}
    ELSE Texts(n - 1) \cup
         {Append(t, c) : t \in {u \in Texts(n - 1) : Len(u) = n - 1}, c \in {"a", " "}}

\* the call chunk_text(text, chunk_size, overlap) at line 63; build says
\* whether the arithmetic is checked (debug) or wraps (release); windows
\* lists the windows examined so far as [start, end), 0-based as in the code,
\* and from[k] is the window that chunks[k] was taken from
ChunkCall(build, text, chunk_size, overlap) ==
    [fn |-> "chunk_text", build |-> build, chars |-> text,
     chunk_size |-> chunk_size, overlap |-> overlap, start |-> 0,
     chunks |-> <<>>, windows |-> <<>>, from |-> <<>>, pc |-> "loop"]

\* chars[start..end] with 0-based bounds, end exclusive
Slice(chars, start, end) == SubSeq(chars, start + 1, end)

\* line 67: !chunk.trim().is_empty()
NonBlankUntrimmed(piece) == piece # <<>>
NonBlank(piece) == trim(piece) # <<>>

\* line 71: start += chunk_size - overlap on usize: with overlap > chunk_size
\* the subtraction overflows, which panics in a debug build and wraps in a
\* release build, where the addition wraps as well
AdvanceNowhere(build, start, chunk_size, overlap) ==
    [panic |-> FALSE, start |-> start]
AdvanceBySize(build, start, chunk_size, overlap) ==
    [panic |-> FALSE, start |-> start + chunk_size]
AdvancePlusOverlap(build, start, chunk_size, overlap) ==
    [panic |-> FALSE, start |-> start + chunk_size + overlap]
Advance(build, start, chunk_size, overlap) ==
    IF overlap <= chunk_size
    THEN [panic |-> FALSE, start |-> start + (chunk_size - overlap)]
    ELSE IF build = "debug" THEN [panic |-> TRUE, start |-> start]
    ELSE [panic |-> FALSE,
          start |-> (start + (UsizeRange - (overlap - chunk_size))) % UsizeRange]

\* lines 63-72: one iteration of the loop
ChunkWindow ==
    /\ call.fn = "chunk_text" /\ call.pc = "loop"
    /\ call.start < Len(call.chars)
    /\ Len(call.windows) < MaxWindows
    /\ LET end == Min(call.start + call.chunk_size, Len(call.chars))
           piece == Slice(call.chars, call.start, end)
           emit == NonBlank(piece)
           next == Advance(call.build, call.start, call.chunk_size, call.overlap)
       IN  call' = [call EXCEPT
                !.windows = Append(@, [start |-> call.start, end |-> end]),
                !.chunks = IF emit THEN Append(@, piece) ELSE @,
                !.from = IF emit THEN Append(@, Len(call.windows) + 1) ELSE @,
                !.pc = IF end = Len(call.chars) THEN "done"
                       ELSE IF next.panic THEN "panic" ELSE "loop",
                !.start = IF end = Len(call.chars) THEN @ ELSE next.start]
    /\ UNCHANGED <<store, uuids, faults, ing, cg, sg, hist>>

\* lines 63, 73: the loop condition is false and the chunks are returned
ChunkReturn ==
    /\ call.fn = "chunk_text" /\ call.pc = "loop"
    /\ ~(call.start < Len(call.chars))
    /\ call' = [call EXCEPT !.pc = "done"]
    /\ UNCHANGED <<store, uuids, faults, ing, cg, sg, hist>>

----------------------------------------------------------------------------
(* utils.rs: sanitize_id on its own *)

\* the names of at most n characters over letters, a digit, a blank, a dot
\* and an underscore
RECURSIVE Names(_)
Names(n) ==
    IF n = 0 THEN {<<>>}
    ELSE Names(n - 1) \cup
         {Append(t, c) : t \in {u \in Names(n - 1) : Len(u) = n - 1},
                         c \in {"A", "a", "1", " ", ".", "_"}}

\* sanitize_id(text), and then sanitize_id of its result
SanitizeCall(text) ==
    [fn |-> "sanitize_id", input |-> text, once |-> <<>>, twice |-> <<>>,
     pc |-> "call"]

SanitizeFirst ==
    /\ call.fn = "sanitize_id" /\ call.pc = "call"
    /\ call' = [call EXCEPT !.once = sanitize_id(call.input), !.pc = "returned"]
    /\ UNCHANGED <<store, uuids, faults, ing, cg, sg, hist>>

SanitizeAgain ==
    /\ call.fn = "sanitize_id" /\ call.pc = "returned"
    /\ call' = [call EXCEPT !.twice = sanitize_id(call.once), !.pc = "again"]
    /\ UNCHANGED <<store, uuids, faults, ing, cg, sg, hist>>

----------------------------------------------------------------------------
(* Specifications *)

\* no pure function is under study while the commands run
NoCall == [fn |-> "none"]

StoreInitFor(ingests, invocations) ==
    /\ event = {} /\ document = {} /\ chunk = {} /\ entity = {}
    /\ imported = EmptyBag /\ contains = EmptyBag
    /\ mentions = EmptyBag /\ related_to = EmptyBag
    /\ uuids = 0
    /\ faults = 0
    /\ ing = IngestIdle
    /\ cg = [p \in invocations |-> GraphIdle]
    /\ sg = SaveIdle
    /\ hist = [ingestRuns |-> 0, graphRuns |-> 0, saveRuns |-> 0,
               newChunk |-> FALSE, covered |-> FALSE, settled |-> FALSE,
               interrupted |-> {}, ingests |-> ingests]
StoreInitWith(ingests) == StoreInitFor(ingests, {1})
StoreInit == StoreInitWith(MaxIngestRuns)

Init == StoreInit /\ call = NoCall

Ingest ==
    \/ \E dir \in Directories : IngestScanFails(dir)
    \/ \E dir \in Directories, ok \in Outcomes : IngestSession(dir, ok)
    \/ IngestSkipFile
    \/ \E reply \in ParentReplies, ok \in Outcomes : IngestDocument(reply, ok)
    \/ \E ok \in Outcomes : IngestImported(ok)
    \/ \E reply \in AllReplies, ok \in Outcomes : IngestChunk(reply, ok)
    \/ \E ok \in Outcomes : IngestContains(ok)
    \/ IngestDone

Graph ==
    \/ \E p \in DOMAIN cg : GraphSelectFails(p)
    \/ \E p \in DOMAIN cg, sel \in SelectLimited(Unprocessed) : GraphSelect(p, sel)
    \/ \E p \in DOMAIN cg, ok \in Outcomes :
            \E topic \in cg[p].topics : GraphEntity(p, topic, ok)
    \/ \E p \in DOMAIN cg, ok \in Outcomes : GraphMentions(p, ok)
    \/ \E p \in DOMAIN cg, ok \in Outcomes : GraphMark(p, ok)

Save ==
    \/ \E c \in chunk, data \in Extractions : SaveStart(c, data)
    \/ \E ok \in Outcomes : SaveEntity(ok)
    \/ \E ok \in Outcomes : SaveMentions(ok)
    \/ \E ok \in Outcomes : SaveHead(ok)
    \/ \E ok \in Outcomes : SaveTail(ok)
    \/ \E ok \in Outcomes : SaveRelation(ok)

Next == Ingest \/ Graph

\* the commands of the application
Spec == Init /\ [][Next]_vars

\* ingest_documents on a store whose writes succeed
IngestStored ==
    \/ \E dir \in Directories : IngestSession(dir, TRUE)
    \/ IngestSkipFile
    \/ \E reply \in ParentReplies : IngestDocument(reply, TRUE)
    \/ IngestImported(TRUE)
    \/ \E reply \in AllReplies : IngestChunk(reply, TRUE)
    \/ IngestContains(TRUE)
    \/ IngestDone

NextSave == IngestStored \/ Graph \/ Save

\* Stage 2 and calls of save_graph_data, in any sequence, on the stores that
\* ingest_documents builds; the store calls of Stage 2 and of save_graph_data
\* may fail
SpecSave == Init /\ [][NextSave]_vars

NextCrash == IngestStored \/ Graph \/ \E p \in DOMAIN cg : GraphCrash(p)

\* Stage 2 on the stores that ingest_documents builds, where the process may
\* stop in the middle of a run and construct_graph is invoked again
SpecCrash == Init /\ [][NextCrash]_vars

\* ingest_documents over the scenario directory, the store calls succeeding
IngestScenario ==
    \/ IngestSession(ScenarioDirectory, TRUE)
    \/ \E reply \in ParentReplies : IngestDocument(reply, TRUE)
    \/ IngestImported(TRUE)
    \/ \E reply \in ScenarioReplies : IngestChunk(reply, TRUE)
    \/ IngestContains(TRUE)
    \/ IngestDone

NextScenario == IngestScenario \/ Graph

\* the end-to-end scenario: one ingest of the two-page document, then Stage 2
SpecScenario == Init /\ [][NextScenario]_vars

\* construct_graph invoked twice, the second invocation possibly while the
\* first is running, on the store of the scenario ingest
GraphBeside ==
    \/ \E p \in DOMAIN cg, sel \in SelectLimited(Unprocessed) :
            GraphSelectBeside(p, sel)
    \/ \E p \in DOMAIN cg, ok \in Outcomes :
            \E topic \in cg[p].topics : GraphEntity(p, topic, ok)
    \/ \E p \in DOMAIN cg, ok \in Outcomes : GraphMentions(p, ok)
    \/ \E p \in DOMAIN cg, ok \in Outcomes : GraphMark(p, ok)

InitBeside == StoreInitFor(MaxIngestRuns, {1, 2}) /\ call = NoCall
NextBeside == IngestScenario \/ GraphBeside

\* Stage 2 invocations that interleave
SpecBeside == InitBeside /\ [][NextBeside]_vars

\* directories of readable PDF files with pages
TwiceDirectories ==
    {[readable |-> TRUE, entries |-> <<Entry(PdfGood1)>>],
     [readable |-> TRUE, entries |-> <<Entry(PdfGood1), Entry(PdfGood2)>>]}

\* ingest_documents over such a directory, and again over the same one, the
\* store calls succeeding
IngestTwice ==
    \/ \E dir \in TwiceDirectories :
          /\ ing.pc = "idle" \/ ScanDirectory(dir).files = ing.pdf_files
          /\ IngestSession(dir, TRUE)
    \/ \E reply \in ParentReplies : IngestDocument(reply, TRUE)
    \/ IngestImported(TRUE)
    \/ \E reply \in AllReplies : IngestChunk(reply, TRUE)
    \/ IngestContains(TRUE)
    \/ IngestDone

InitTwice == StoreInitWith(MaxIngestRuns + 1) /\ call = NoCall
NextTwice == IngestTwice

\* Stage 1 run twice over the same directory
SpecTwice == InitTwice /\ [][NextTwice]_vars

\* ---------------------------------------------------------------------
\* fetch_graph_data (commands/query.rs)

\* the values of view_mode the command is studied with; the code compares it
\* with "semantic" only
ViewModes == {"all", "knowledge", "semantic"}

\* type::string(id) of a record id: table, colon, key
type_string(thing) == <<thing.tb, ":">> \o id_to_string(thing.id)

\* GraphNodeRes of a record: its id as a string and its group
GraphNodeRes(tb, rec) == [id |-> type_string(Thing(tb, rec.id)), group |-> tb]

\* GraphLinkRes of an edge: label is None (<<>>) or Some(relation)
GraphLinkRes(e, label) ==
    [source |-> type_string(e.in), target |-> type_string(e.out), label |-> label]

\* lines 53-127: document nodes always, chunk nodes unless the mode is
\* "semantic", entity nodes always
FetchNodes(view_mode) ==
    {GraphNodeRes("document", d) : d \in document}
        \cup (IF view_mode # "semantic"
              THEN {GraphNodeRes("chunk", c) : c \in chunk}
              ELSE {})
        \cup {GraphNodeRes("entity", e) : e \in entity}

\* lines 130-174: contains and mentions links unless the mode is "semantic",
\* related_to links always, labelled with their relation
FetchLinks(view_mode) ==
    (IF view_mode # "semantic"
     THEN {GraphLinkRes(e, <<>>) : e \in BagToSet(contains)}
              \cup {GraphLinkRes(e, <<>>) : e \in BagToSet(mentions)}
     ELSE {})
        \cup {GraphLinkRes(e, <<e.props[1]>>) : e \in BagToSet(related_to)}

\* lines 39-178: the command runs its SELECT statements and returns the
\* response as the collection of its nodes and links, or Err when a statement
\* fails
FetchGraph(view_mode, ok) ==
    /\ NoCommandRuns
    /\ call' = IF ok
               THEN [fn |-> "fetch_graph_data", view_mode |-> view_mode,
                     pc |-> "ok", nodes |-> FetchNodes(view_mode),
                     links |-> FetchLinks(view_mode)]
               ELSE [fn |-> "fetch_graph_data", view_mode |-> view_mode,
                     pc |-> "err", nodes |-> {}, links |-> {}]
    /\ UNCHANGED <<store, uuids, faults, ing, cg, sg, hist>>

\* the caller has taken the response
FetchReturn ==
    /\ call # NoCall /\ call.fn = "fetch_graph_data"
    /\ call' = NoCall
    /\ UNCHANGED <<store, uuids, faults, ing, cg, sg, hist>>

Fetch ==
    \/ \E view_mode \in ViewModes, ok \in BOOLEAN : FetchGraph(view_mode, ok)
    \/ FetchReturn

NextFetch == IngestStored \/ Save \/ Fetch

\* fetch_graph_data between the calls that write the store, on stores that
\* come to hold every kind of node and edge the command reads
SpecFetch == Init /\ [][NextFetch]_vars

InitRepair == StoreInit /\ \E input \in RepairInputs : call = RepairCall(input)
NextRepair == RepairFence \/ RepairCommas \/ RepairEmptyKey \/ RepairClose

\* clean_and_repair_json on the replies of the model
SpecRepair == InitRepair /\ [][NextRepair]_vars

InitRepairStep ==
    StoreInit /\ \E step \in RepairSteps, input \in StepInputs :
                    call = StepCall(step, input)
NextRepairStep == StepOnce \/ StepTwice

\* each repair step of clean_and_repair_json applied twice to a reply
SpecRepairStep == InitRepairStep /\ [][NextRepairStep]_vars

InitChunk ==
    /\ StoreInit
    /\ \E build \in {"debug", "release"}, text \in Texts(MaxTextLen),
          chunk_size \in 1..MaxChunkSize, overlap \in 0..MaxChunkSize :
            call = ChunkCall(build, text, chunk_size, overlap)
NextChunk == ChunkWindow \/ ChunkReturn

\* chunk_text on every text, chunk_size and overlap within the bounds
SpecChunk == InitChunk /\ [][NextChunk]_vars

\* chunk_text where a call that can take a step takes one: the function runs
\* to its return unless it loops for ever
SpecChunkLive == InitChunk /\ [][NextChunk]_vars /\ WF_vars(NextChunk)

\* ---------------------------------------------------------------------
\* extractor.rs: the user turn of summarize_document

\* char::len_utf8: "a" is an ASCII letter, "e" stands for a two-byte letter
\* (an accented one), "k" for a three-byte one (a Hangul syllable)
len_utf8(c) == CASE c = "a" -> 1 [] c = "e" -> 2 [] OTHER -> 3

\* str::len: the length of a text in bytes
RECURSIVE ByteLen(_)
ByteLen(text) ==
    IF text = <<>> THEN 0 ELSE len_utf8(Head(text)) + ByteLen(Tail(text))

\* str::is_char_boundary(n): n is the byte offset of a character or the end
is_char_boundary(text, n) ==
    \E m \in 0..Len(text) : ByteLen(SubSeq(text, 1, m)) = n

\* line 44: text[0..2000] when text.len() > 2000, else text; slicing a str
\* at a byte offset inside a character panics
truncated_text(text) ==
    IF ByteLen(text) > PromptBytes
    THEN IF is_char_boundary(text, PromptBytes)
         THEN [panic |-> FALSE,
               user |-> SubSeq(text, 1,
                          CHOOSE m \in 0..Len(text) :
                              ByteLen(SubSeq(text, 1, m)) = PromptBytes)]
         ELSE [panic |-> TRUE, user |-> <<>>]
    ELSE [panic |-> FALSE, user |-> text]

\* the unit texts of at most n characters
RECURSIVE UnitTexts(_)
UnitTexts(n) ==
    IF n = 0 THEN {<<>>}
    ELSE UnitTexts(n - 1) \cup
         {Append(t, c) : t \in {u \in UnitTexts(n - 1) : Len(u) = n - 1},
                         c \in {"a", "e", "k"}}

\* the call summarize_document(base_url, text) up to the payload of line 46
SummarizeCall(text) ==
    [fn |-> "summarize_document", text |-> text, user |-> <<>>, pc |-> "call"]
SummarizeTruncate ==
    /\ call.fn = "summarize_document" /\ call.pc = "call"
    /\ LET t == truncated_text(call.text)
       IN  call' = [call EXCEPT !.user = t.user,
                                !.pc = IF t.panic THEN "panic" ELSE "payload"]
    /\ UNCHANGED <<store, uuids, faults, ing, cg, sg, hist>>

InitSummarize ==
    StoreInit /\ \E text \in UnitTexts(MaxUnitChars) : call = SummarizeCall(text)
NextSummarize == SummarizeTruncate

\* summarize_document on every unit text within the bounds
SpecSummarize == InitSummarize /\ [][NextSummarize]_vars

InitSanitize == StoreInit /\ \E text \in Names(MaxNameLen) : call = SanitizeCall(text)
NextSanitize == SanitizeFirst \/ SanitizeAgain

\* sanitize_id on every name within the bound
SpecSanitize == InitSanitize /\ [][NextSanitize]_vars

----------------------------------------------------------------------------
(* Properties *)

EntityThing(name) == Thing("entity", sanitize_id(name))
MentionsEdge(chunk_id, name) ==
    [in |-> Thing("chunk", chunk_id), out |-> EntityThing(name), props |-> <<>>]
ContainsEdge(doc_id, chunk_id) ==
    [in |-> Thing("document", doc_id), out |-> Thing("chunk", chunk_id),
     props |-> <<>>]
Stored(table, id) == {r \in table : r.id = id}

\* the files of the run whose pages were extracted, in directory order
RECURSIVE GoodFiles(_)
GoodFiles(files) ==
    IF files = <<>> THEN <<>>
    ELSE IF Head(files).extract.ok /\ Head(files).extract.pages # <<>>
         THEN <<Head(files)>> \o GoodFiles(Tail(files))
         ELSE GoodFiles(Tail(files))

RECURSIVE PageCount(_)
PageCount(files) ==
    IF files = <<>> THEN 0
    ELSE Len(Head(files).extract.pages) + PageCount(Tail(files))

\* C1: a construct_graph run that follows a run which returned Ok and had
\* taken every unprocessed chunk, with no chunk created in between, issues no
\* store write.
C1_RerunIsNoOp ==
    \A p \in DOMAIN cg : cg[p].rerun => cg[p].writes = 0

\* C2: there is at most one stored Entity per canonical id, the id of every
\* stored Entity is the canonical id of its name, and every edge that points
\* to an Entity points to a canonical id, so that two names with the same
\* canonical id resolve to the same node.
C2_EntitiesNotDuplicated ==
    /\ \A e1, e2 \in entity : e1.id = e2.id => e1 = e2
    /\ \A e \in entity : e.id = sanitize_id(e.name)
    /\ \A m \in BagToSet(mentions) : m.out.id = sanitize_id(m.out.id)

\* C2 witness: the names "A" and "a" of one chunk have both been upserted and
\* linked, and one Entity node with the id "a" is stored.
C2_Witness ==
    \E c \in chunk :
        /\ {NameA, NameLowA} \subseteq Topics(c)
        /\ CopiesIn(MentionsEdge(c.id, NameA), mentions) >= 2
        /\ Cardinality(Stored(entity, <<"a">>)) = 1

\* C3: when ingest_documents returns Ok, every PDF file whose pages were
\* extracted has one Document node and, for each page i, one Chunk node with
\* page_index i and the text of the page, linked to the Document by one
\* Contains edge.
C3_OneDocumentOneChunkPerUnit ==
    ing.pc = "ok" =>
        LET good == GoodFiles(ing.pdf_files)
        IN  /\ Len(ing.docs) = Len(good)
            /\ \A j \in 1..Len(good) :
                /\ ing.docs[j].file = good[j].name
                /\ Cardinality(Stored(document, ing.docs[j].doc)) = 1
                /\ \A i \in 1..Len(good[j].extract.pages) :
                    \E l \in Range(ing.log) :
                        /\ l.doc = ing.docs[j].doc /\ l.unit = i - 1
                        /\ \E c \in Stored(chunk, l.chunk) :
                              /\ c.page_index = i - 1
                              /\ c.content = good[j].extract.pages[i]
                        /\ CopiesIn(ContainsEdge(l.doc, l.chunk), contains) = 1

\* the command aborts after the scan only on a failed store write
AbortsOnlyOnStoreFailure ==
    (ing.pc = "err" /\ ing.pdf_files # <<>>) => ing.failed

\* C4: every unit that ingest_documents has got past has its Chunk node with
\* the unit's text and index, with the failure summary and no tags and no
\* keywords when the LLM call or the parse failed; a failed reply never
\* aborts the command; and when the command returns Ok it has created one
\* chunk per extracted page, whatever the replies were.
C4_UnitIsolation ==
    /\ \A l \in Range(ing.log) :
          \E c \in Stored(chunk, l.chunk) :
              /\ c.content = l.text /\ c.page_index = l.unit
              /\ l.reply \in FailedReplies =>
                    /\ c.metadata.summary = SummaryFailed
                    /\ c.metadata.tags = <<>>
                    /\ c.metadata.keywords = <<>>
    /\ AbortsOnlyOnStoreFailure
    /\ ing.pc = "ok" => Len(ing.log) = PageCount(GoodFiles(ing.pdf_files))

\* C4 witness: the command returned Ok although the reply for the first unit
\* of a file failed, and a later unit of that file has its chunk.
C4_Witness ==
    /\ ing.pc = "ok"
    /\ \E a, b \in 1..Len(ing.log) :
          /\ a < b
          /\ ing.log[a].reply \in FailedReplies
          /\ ing.log[a].doc = ing.log[b].doc
          /\ Stored(chunk, ing.log[b].chunk) # {}

\* C5: a file whose page extraction fails gets no Document and no Chunk, the
\* command does not abort on it, and when the command returns Ok the
\* Documents and Chunks it created are those of the other files, in order.
C5_FileIsolation ==
    /\ AbortsOnlyOnStoreFailure
    /\ \A j \in 1..Len(ing.pdf_files) :
          ~ing.pdf_files[j].extract.ok =>
             /\ \A d \in document : d.filename # ing.pdf_files[j].name
             /\ \A d \in Range(ing.docs) : d.file # ing.pdf_files[j].name
             /\ \A l \in Range(ing.log) : l.file # ing.pdf_files[j].name
    /\ ing.pc = "ok" =>
          LET good == GoodFiles(ing.pdf_files)
          IN  /\ Len(ing.docs) = Len(good)
              /\ \A j \in 1..Len(good) :
                    /\ ing.docs[j].file = good[j].name
                    /\ Stored(document, ing.docs[j].doc) # {}
              /\ Len(ing.log) = PageCount(good)

\* C5 witness: the command returned Ok for a directory whose first file could
\* not be extracted, having created the Document of a later file.
C5_Witness ==
    /\ ing.pc = "ok"
    /\ ~ing.pdf_files[1].extract.ok
    /\ ing.docs # <<>>
    /\ Len(ing.log) = 2

\* C6: once a store write of a command has failed, the command has returned
\* an error (and so issues no further write).
C6_StoreFailureAborts ==
    /\ ing.failed => ing.pc = "err"
    /\ \A p \in DOMAIN cg : cg[p].failed => cg[p].pc = "err"

\* the chunks of the selection that the run is done with
Done(p) ==
    {i \in 1..Len(cg[p].sel) : i < cg[p].k \/ cg[p].pc = "ok"}

\* C7: once construct_graph is done with a chunk, every candidate name of the
\* chunk has a stored Entity with the canonical id of the name and a Mentions
\* edge from the chunk to it.
C7_CandidatesLinked ==
    \A p \in DOMAIN cg : \A i \in Done(p) :
        \A name \in Candidates(Topics(cg[p].sel[i])) :
            /\ Stored(entity, sanitize_id(name)) # {}
            /\ BagIn(MentionsEdge(cg[p].sel[i].id, name), mentions)

\* C8: when construct_graph returns Ok, every chunk it selected is stored
\* with processed = true, and the count it reports is the number of chunks it
\* marked.
C8_SelectedAreMarked ==
    \A p \in DOMAIN cg :
        cg[p].pc = "ok" =>
            /\ \A i \in 1..Len(cg[p].sel) :
                  \E c \in Stored(chunk, cg[p].sel[i].id) : IsProcessed(c)
            /\ cg[p].success_count =
                  Cardinality({i \in 1..Len(cg[p].sel) :
                      \E c \in Stored(chunk, cg[p].sel[i].id) : IsProcessed(c)})

\* C9: a construct_graph run selects at most BatchLimit chunks (500 in the
\* code), none of them marked processed when selected, and while it upserts
\* an Entity or creates a Mentions edge for a chunk, that chunk is not marked
\* processed in the store.
C9_SelectionBounded ==
    \A p \in DOMAIN cg :
        /\ Len(cg[p].sel) <= BatchLimit
        /\ \A i \in 1..Len(cg[p].sel) : ~IsProcessed(cg[p].sel[i])
        /\ cg[p].pc \in {"entity", "mentions"} =>
              \A c \in Stored(chunk, CurrentChunk(p).id) : ~IsProcessed(c)

\* C9 witness: more than BatchLimit chunks are unprocessed, the run holds
\* BatchLimit of them and is upserting the Entity of one.
C9_Witness ==
    \E p \in DOMAIN cg :
        /\ cg[p].pc = "mentions"
        /\ Len(cg[p].sel) = BatchLimit
        /\ Cardinality(Unprocessed) > BatchLimit

\* C10: when save_graph_data returns Ok, for every relation triple of the
\* extraction result the Entity nodes of the head and of the tail are stored
\* under their canonical ids with a name, and a RelatedTo edge from the head
\* to the tail carries the relation and the reason.
C10_RelationsStored ==
    sg.pc = "ok" =>
        \A rel \in Range(sg.data.relations) :
            /\ \E e \in Stored(entity, sanitize_id(rel.head)) : e.name # <<>>
            /\ \E e \in Stored(entity, sanitize_id(rel.tail)) : e.name # <<>>
            /\ BagIn([in |-> EntityThing(rel.head), out |-> EntityThing(rel.tail),
                      props |-> <<rel.relation, rel.reason>>], related_to)

\* C11: right after an Entity has been upserted, by construct_graph or by
\* save_graph_data, exactly one node is stored under its canonical id and it
\* holds the content of that upsert, whether or not a node with other content
\* was stored under the id before.
C11_UpsertIdempotent ==
    /\ \A p \in DOMAIN cg :
          (cg[p].pc = "mentions" /\ cg[p].upserted) =>
              Stored(entity, sanitize_id(cg[p].topic)) = {KeywordEntity(cg[p].topic)}
    /\ sg.pc = "mentions" =>
          LET ent == sg.data.entities[sg.e + 1]
          IN  Stored(entity, sanitize_id(ent.name)) = {ExtractedEntity(ent)}

\* C11 witness: save_graph_data has just upserted an Entity under an id that
\* held a node with other content, written by construct_graph.
C11_Witness ==
    /\ sg.pc = "mentions" /\ sg.replaced
    /\ \E p \in DOMAIN cg : cg[p].pc = "ok" /\ cg[p].upserted

\* C12: when a construct_graph run returns Ok having selected a chunk on which
\* an earlier run was interrupted, every candidate of that chunk has exactly
\* one Entity node and at least one Mentions edge from the chunk, and the
\* chunk is stored as processed.
C12_RetryCompletes ==
    \A p \in DOMAIN cg :
        cg[p].pc = "ok" =>
            \A i \in 1..Len(cg[p].sel) :
                cg[p].sel[i].id \in hist.interrupted =>
                    /\ \A name \in Candidates(Topics(cg[p].sel[i])) :
                          /\ Cardinality(Stored(entity, sanitize_id(name))) = 1
                          /\ BagIn(MentionsEdge(cg[p].sel[i].id, name), mentions)
                    /\ \E c \in Stored(chunk, cg[p].sel[i].id) : IsProcessed(c)

\* an object that misses n >= 1 of its closing brackets and braces
MissingClosers(doc) ==
    {SubSeq(doc, 1, Len(doc) - n) : n \in 1..Len(doc)} \cap
    {t \in Prefixes(doc) : \A i \in (Len(t) + 1)..Len(doc) : doc[i] \in {"]", "}"}}

\* C13: for an object that misses n >= 1 closing brackets or braces, the text
\* clean_and_repair_json returns has as many '{' as '}' and as many '[' as
\* ']'.
C13_RepairBalances ==
    (/\ call.fn = "clean_and_repair_json" /\ call.pc = "done"
     /\ call.input \in UNION {MissingClosers(doc) : doc \in Docs}) =>
        /\ Count(call.text, "{") = Count(call.text, "}")
        /\ Count(call.text, "[") = Count(call.text, "]")

\* a chunk_text call whose arguments meet 0 <= overlap < chunk_size
ValidChunking == call.fn = "chunk_text" /\ call.overlap < call.chunk_size

\* the window (0-based, end exclusive) that the k-th returned chunk is
ChunkSpan(k) == call.windows[call.from[k]]
Covered(pos) ==
    \E k \in 1..Len(call.chunks) : ChunkSpan(k).start <= pos /\ pos < ChunkSpan(k).end

\* C14 as stated: when chunk_text returns, every character position of the
\* text lies in a returned chunk, and the next returned chunk starts no more
\* than overlap characters after the end of the previous one.
C14_CoversEveryCharacter ==
    (ValidChunking /\ call.pc = "done") =>
        /\ \A pos \in 0..(Len(call.chars) - 1) : Covered(pos)
        /\ \A k \in 1..(Len(call.chunks) - 1) :
              ChunkSpan(k + 1).start - ChunkSpan(k).end <= call.overlap

\* C14 amended: when chunk_text returns, every character that is not
\* whitespace lies in a returned chunk (the characters outside every
\* returned chunk are whitespace), and the windows examined leave no gap:
\* each starts at or before the end of the one before, the first at 0, the
\* last ends at the end of the text.
C14_CoversNonBlank ==
    (ValidChunking /\ call.pc = "done") =>
        /\ \A pos \in 0..(Len(call.chars) - 1) :
              ~is_whitespace(call.chars[pos + 1]) => Covered(pos)
        /\ \A w \in 1..(Len(call.windows) - 1) :
              call.windows[w + 1].start <= call.windows[w].end
        /\ call.chars # <<>> =>
              /\ call.windows[1].start = 0
              /\ call.windows[Len(call.windows)].end = Len(call.chars)

\* C14 witness: a call with an overlap returned two chunks and passed over a
\* window of whitespace.
C14_Witness ==
    /\ ValidChunking /\ call.pc = "done" /\ call.overlap > 0
    /\ Len(call.chunks) >= 2
    /\ Len(call.windows) > Len(call.chunks)

\* C15: no chunk that chunk_text holds or returns is empty after trimming,
\* and the chunks are in increasing order of their start position.
C15_NoBlankChunkInOrder ==
    ValidChunking =>
        /\ \A k \in 1..Len(call.chunks) :
              /\ \E i \in 1..Len(call.chunks[k]) : ~is_whitespace(call.chunks[k][i])
              /\ call.chunks[k] =
                    Slice(call.chars, ChunkSpan(k).start, ChunkSpan(k).end)
        /\ \A k \in 1..(Len(call.chunks) - 1) :
              ChunkSpan(k).start < ChunkSpan(k + 1).start

\* C15 witness: the call returned chunks on both sides of a window made only
\* of whitespace, which it did not return.
C15_Witness ==
    /\ ValidChunking /\ call.pc = "done"
    /\ \E k \in 1..(Len(call.chunks) - 1) : call.from[k + 1] > call.from[k] + 1

\* C16: a chunk_text call with overlap >= chunk_size examines no window and
\* returns no chunks: it ends with a configuration error.
C16_OverlapRejected ==
    (call.fn = "chunk_text" /\ call.overlap >= call.chunk_size) =>
        /\ call.windows = <<>>
        /\ call.pc \notin {"done", "panic"}

\* C17: sanitize_id applied to its own result returns that result.
C17_SanitizeIdempotent ==
    (call.fn = "sanitize_id" /\ call.pc = "again") => call.twice = call.once

\* C17 witness: a name that sanitize_id changes (it is trimmed, lowercased
\* and has a character replaced) has been sanitized twice.
C17_Witness ==
    /\ call.fn = "sanitize_id" /\ call.pc = "again"
    /\ call.input = <<" ", "A", ".">>
    /\ call.once = <<"a", "_">>

C19_DirectoryFailureWritesNothing ==
    [][(ing' # ing /\ ing'.scan = "io_error") =>
          /\ Returned(ing.pc)
          /\ ing'.pc = "err"
          /\ UNCHANGED store]_vars

\* C19 witness: ingest_documents has returned the error of a directory that
\* cannot be read.
C19_Witness ==
    /\ ing.pc = "err" /\ ing.scan = "io_error"
    /\ hist.ingestRuns = 1

\* C20: every Document that the ingest_documents invocation has created and
\* gone on from is linked by exactly one Imported edge from the Session node
\* of the invocation.
C20_DocumentsImported ==
    \A j \in 1..Len(ing.docs) :
        (j < Len(ing.docs) \/ ing.pc # "imported") =>
            CopiesIn([in |-> Thing("event", ing.session_id),
                      out |-> Thing("document", ing.docs[j].doc),
                      props |-> <<>>], imported) = 1

\* the Contains edges that point to a chunk, each as often as it is stored
IncomingContains(chunk_id) ==
    {e \in BagToSet(contains) : e.out = Thing("chunk", chunk_id)}

\* C21: once the write sequence of a unit is over, its Chunk node has exactly
\* one incoming Contains edge, and the edge comes from the Document of the
\* file the chunk was extracted from.
C21_ChunkOwnedByOneDocument ==
    \A j \in 1..Len(ing.log) :
        (j < Len(ing.log) \/ ing.pc # "contains") =>
            /\ IncomingContains(ing.log[j].chunk) =
                   {ContainsEdge(ing.log[j].doc, ing.log[j].chunk)}
            /\ CopiesIn(ContainsEdge(ing.log[j].doc, ing.log[j].chunk), contains) = 1
            /\ \E d \in Stored(document, ing.log[j].doc) :
                   d.filename = ing.log[j].file

\* the step begins an ingest_documents invocation
IngestBegins == hist'.ingestRuns = hist.ingestRuns + 1

SameButFlag(c, c2) ==
    /\ c2.id = c.id
    /\ c2.content = c.content
    /\ c2.page_index = c.page_index
    /\ c2.embedding = c.embedding
    /\ \A k \in DOMAIN c.metadata \ {"step2_processed"} :
           k \in DOMAIN c2.metadata /\ c2.metadata[k] = c.metadata[k]

\* C23: no step of the program changes the content, page_index, embedding or
\* a metadata key other than the processed flag of a stored chunk, and a step
\* of construct_graph neither adds nor removes a chunk.
C23_StageTwoKeepsChunks ==
    [][/\ \A c \in chunk : \E c2 \in chunk' : SameButFlag(c, c2)
       /\ cg' # cg => {c.id : c \in chunk'} = {c.id : c \in chunk}]_vars

\* C23 witness: a construct_graph run has issued the mark of every chunk it
\* selected without a store failure and returned, and the chunks it went
\* through are stored with their metadata.
C23_Witness ==
    \E p \in DOMAIN cg :
        /\ cg[p].pc = "ok" /\ ~cg[p].failed
        /\ cg[p].success_count = Len(cg[p].sel) /\ cg[p].success_count > 0
        /\ \A n \in 1..Len(cg[p].sel) :
               \E c \in chunk : c.id = cg[p].sel[n].id /\ "title" \in DOMAIN c.metadata

\* C24: a call of fetch_graph_data writes nothing to the store, and with view
\* mode "knowledge" its response holds only entity nodes and only links made
\* of related_to edges.
C24_KnowledgeViewOnlyEntities ==
    [][(call.fn = "none" /\ call'.fn = "fetch_graph_data") =>
          /\ store' = store
          /\ (call'.view_mode = "knowledge" /\ call'.pc = "ok") =>
                /\ \A n \in call'.nodes : n.group = "entity"
                /\ \A l \in call'.links :
                       \E e \in BagToSet(related_to) :
                           l = GraphLinkRes(e, <<e.props[1]>>)]_vars

\* the units of the scenario document were summarized into its entities
ScenarioExtracted ==
    /\ ing.pc = "ok" /\ Len(ing.log) = 2
    /\ \A j \in 1..2 : ing.log[j].reply.kind = "parsed"

\* C25: after the ingest of the two-page scenario document the store holds
\* 1 Document, 2 Chunks and 2 Contains edges, and after a construct_graph run
\* over them that returns Ok with no store call failing it holds exactly 3
\* Entity nodes, at least 2 Mentions edges, exactly 1 RelatedTo edge, and
\* both chunks are marked processed.
C25_ScenarioGraph ==
    ScenarioExtracted =>
        /\ Cardinality(document) = 1
        /\ Cardinality(chunk) = 2
        /\ BagCardinality(contains) = 2
        /\ (faults = 0 /\ cg[1].pc = "ok" /\ cg[1].success_count = 2) =>
              /\ Cardinality(entity) = 3
              /\ BagCardinality(mentions) >= 2
              /\ BagCardinality(related_to) = 1
              /\ \A c \in chunk : IsProcessed(c)

\* C26: each of the four repair steps of clean_and_repair_json, applied to
\* its own result, gives that result again.
C26_StepsIdempotent ==
    (call.fn = "repair_step" /\ call.pc = "twice") => call.twice = call.once

\* C27: the text returned by clean_and_repair_json has no comma that is
\* followed, whitespace aside, by a closing bracket or brace.
C27_NoCommaBeforeCloser ==
    (call.fn = "clean_and_repair_json" /\ call.pc = "done") =>
        \A i \in 1..Len(call.text) :
            call.text[i] = "," =>
                \/ SkipSpace(call.text, i + 1) > Len(call.text)
                \/ call.text[SkipSpace(call.text, i + 1)] \notin {"]", "}"}

\* C30: with 0 <= overlap < chunk_size, the k-th window examined by
\* chunk_text starts at (k - 1) * (chunk_size - overlap), counting from 1;
\* every window but the last has chunk_size characters, ends before the end
\* of the text and shares its last overlap characters with the next window;
\* the last window has at most chunk_size characters; and the call returns
\* with the first window that ends at the end of the text.
C30_WindowArithmetic ==
    ValidChunking =>
        LET n == Len(call.windows)
            step == call.chunk_size - call.overlap
        IN  /\ \A k \in 1..n :
                  /\ call.windows[k].start = (k - 1) * step
                  /\ call.windows[k].end - call.windows[k].start <= call.chunk_size
                  /\ call.windows[k].end - call.windows[k].start > 0
                  /\ call.windows[k].end = Len(call.chars) =>
                         k = n /\ call.pc = "done"
            /\ \A k \in 1..(n - 1) :
                  /\ call.windows[k].end - call.windows[k].start = call.chunk_size
                  /\ call.windows[k].end < Len(call.chars)
                  /\ call.windows[k].end - call.windows[k + 1].start = call.overlap
                  /\ call.windows[k + 1].end >= call.windows[k].end
            /\ (call.pc = "done" /\ n > 0) => call.windows[n].end = Len(call.chars)
            /\ call.pc \in {"loop", "done"}

\* C30 witness: a call with an overlap has returned after at least two
\* windows, the last of them shorter than chunk_size.
C30_Witness ==
    /\ ValidChunking /\ call.pc = "done" /\ call.overlap > 0
    /\ Len(call.windows) >= 2
    /\ LET last == call.windows[Len(call.windows)]
       IN  last.end - last.start < call.chunk_size

\* the order of the calls that ingest_documents issued for the file in hand
IngestOrdered(ops) ==
    \A j \in 1..Len(ops) :
        /\ ops[j].op = "document" <=> j = 1
        /\ ops[j].op = "imported" => j = 2
        /\ ops[j].op = "summarize" =>
              IF ops[j].id = 0
              THEN ops[j - 1].op = "imported"
              ELSE /\ ops[j - 1].op = "contains"
                   /\ ops[j - 2].op = "chunk" /\ ops[j - 2].id = ops[j - 1].id
                   /\ ops[j - 3] = [op |-> "summarize", id |-> ops[j].id - 1]
        /\ ops[j].op = "chunk" => ops[j - 1].op = "summarize"
        /\ ops[j].op = "contains" =>
              ops[j - 1] = [op |-> "chunk", id |-> ops[j].id]

\* the order of the calls that construct_graph issued for the chunk in hand
GraphOrdered(ops) ==
    \A j \in 1..Len(ops) :
        /\ ops[j].chunk = ops[1].chunk
        /\ ops[j].op = "upsert" =>
              j = Len(ops) \/ ops[j + 1] = [ops[j] EXCEPT !.op = "mentions"]
        /\ ops[j].op = "mentions" =>
              j > 1 /\ ops[j - 1] = [ops[j] EXCEPT !.op = "upsert"]
        /\ ops[j].op = "mark" => j = Len(ops)

\* C29: ingest_documents issues the create of a Document before every call
\* for its units, the create of a Chunk right before its Contains edge, and
\* the summary request of unit i+1 only after the Chunk and the Contains edge
\* of unit i; construct_graph issues the upsert of an Entity right before the
\* Mentions edge to it, and the mark after every other call for the chunk;
\* and a stored Chunk or edge has the nodes it hangs on stored before it.
C29_WritesInOrder ==
    /\ IngestOrdered(ing.ops)
    /\ \A p \in DOMAIN cg : GraphOrdered(cg[p].ops)
    /\ \A j \in 1..Len(ing.log) :
           /\ Stored(document, ing.log[j].doc) # {}
           /\ (j < Len(ing.log) \/ ing.pc # "err") =>
                  Stored(chunk, ing.log[j].chunk) # {}
    /\ \A e \in BagToSet(contains) :
           Stored(document, e.in.id) # {} /\ Stored(chunk, e.out.id) # {}
    /\ \A e \in BagToSet(mentions) : Stored(chunk, e.in.id) # {}

\* C29 witness: the ingest went through a document of two units and
\* construct_graph went through a chunk of two topics and issued its mark.
C29_Witness ==
    /\ Len(ing.ops) = 8
    /\ \E p \in DOMAIN cg :
           Len(cg[p].ops) = 5 /\ cg[p].ops[5].op = "mark"

\* C28: no step of an ingest run removes or changes a stored node or edge,
\* and when the second run over the same directory of n readable PDF files
\* with pages has returned, the store holds 2 Session nodes and 2n Document
\* nodes.
C28_ReingestAppends ==
    [][/\ event \subseteq event' /\ document \subseteq document'
       /\ chunk \subseteq chunk'
       /\ imported \sqsubseteq imported' /\ contains \sqsubseteq contains'
       /\ (hist'.ingestRuns = 2 /\ ing'.pc = "ok") =>
             /\ Cardinality(event') = 2
             /\ Cardinality(document') = 2 * Len(ing'.pdf_files)]_vars

\* C28 witness: the second run over a directory of two files has returned Ok
\* and the store holds the documents of both runs.
C28_Witness ==
    /\ hist.ingestRuns = 2 /\ ing.pc = "ok"
    /\ Len(ing.pdf_files) = 2
    /\ Cardinality(document) = 4 /\ Cardinality(chunk) = 6

\* C31: with 0 <= overlap < chunk_size, every iteration of chunk_text either
\* is the last one or moves the window start forward, within the text; the
\* call returns; and on the empty text it returns no chunk without having
\* examined a window.
C31_ChunkTextTerminates ==
    /\ [][(ValidChunking /\ call.pc = "loop" /\ call'.pc # "done") =>
             /\ call'.pc = "loop"
             /\ call'.start > call.start
             /\ call'.start < Len(call.chars)]_vars
    /\ [](ValidChunking => <>(call.pc = "done"))
    /\ []((ValidChunking /\ call.chars = <<>> /\ call.pc = "done") =>
             call.windows = <<>> /\ call.chunks = <<>>)

\* C31 witness: a call with an overlap has returned after three iterations.
C31_Witness ==
    /\ ValidChunking /\ call.pc = "done" /\ call.overlap > 0
    /\ Len(call.windows) >= 3

\* the text before is the text after without what the closing step appends:
\* the step cut only commas and whitespace from the end and appended suffix
ClosedBy(before, after, suffix) ==
    \E n \in 0..Len(before) :
        /\ \A i \in (n + 1)..Len(before) : before[i] \in {",", " "}
        /\ after = SubSeq(before, 1, n) \o suffix

\* C32: the closing step of clean_and_repair_json returns a text that ends
\* with '}'; it leaves a text that ends with '}' as it is; to any other text
\* it appends nothing, one '}', or one ']' followed by one '}'.
C32_ClosesWithBrace ==
    [][(call.fn = "clean_and_repair_json" /\ call.pc = "close"
        /\ call'.pc = "done") =>
          /\ ends_with(call'.text, "}")
          /\ ends_with(call.text, "}") => call'.text = call.text
          /\ ~ends_with(call.text, "}") =>
                \E suffix \in {<<>>, <<"}">>, <<"]", "}">>} :
                    ClosedBy(call.text, call'.text, suffix)]_vars

\* C32 witness: a reply cut inside a list has been returned with the list and
\* the object closed, in this order.
C32_Witness ==
    /\ call.fn = "clean_and_repair_json" /\ call.pc = "done"
    /\ call.input = SubSeq(DocList, 1, 7)
    /\ call.text = DocList

\* C33: no two Mentions edges join the same chunk and the same Entity.
C33_OneMentionsEdge ==
    \A e \in BagToSet(mentions) : CopiesIn(e, mentions) = 1

\* C34: two construct_graph invocations that run at the same time hold no
\* chunk in common.
C34_NoChunkProcessedByBoth ==
    \A p, q \in DOMAIN cg :
        (p # q /\ ~Returned(cg[p].pc) /\ ~Returned(cg[q].pc)) =>
            {cg[p].sel[i].id : i \in 1..Len(cg[p].sel)} \cap
            {cg[q].sel[i].id : i \in 1..Len(cg[q].sel)} = {}

\* C35: with no store call failing, a construct_graph run that returns Ok
\* having selected the whole backlog (fewer chunks than the limit, or all the
\* chunks of a store that holds no more than the limit) leaves no chunk
\* unprocessed, so that the invocation after it finds nothing to select.
C35_BacklogDrains ==
    \A p \in DOMAIN cg :
        (/\ faults = 0 /\ ing.pc = "ok" /\ cg[p].pc = "ok"
         /\ \/ Len(cg[p].sel) \in 1..(BatchLimit - 1)
            \/ cg[p].sel # <<>> /\ Cardinality(chunk) <= BatchLimit) =>
            Unprocessed = {}

\* C36: when construct_graph returns Ok with no store call failing, a chunk
\* it selected that has no tag and no keyword has no Mentions edge and is
\* stored as processed, so that no later run selects it.
C36_FailedChunkSettled ==
    \A p \in DOMAIN cg :
        (faults = 0 /\ cg[p].pc = "ok") =>
            \A i \in 1..Len(cg[p].sel) :
                Candidates(Topics(cg[p].sel[i])) = {} =>
                    /\ \A e \in BagToSet(mentions) :
                           e.in # Thing("chunk", cg[p].sel[i].id)
                    /\ \E c \in Stored(chunk, cg[p].sel[i].id) : IsProcessed(c)

\* C37: for every text, summarize_document gets to build its payload, and
\* the user turn is a prefix of the text of at most PromptBytes bytes, the
\* whole text when the text has no more bytes than that.
C37_UserTurnIsPrefix ==
    (call.fn = "summarize_document" /\ call.pc # "call") =>
        /\ call.pc = "payload"
        /\ \E m \in 0..Len(call.text) : call.user = SubSeq(call.text, 1, m)
        /\ ByteLen(call.user) <= PromptBytes
        /\ ByteLen(call.text) <= PromptBytes => call.user = call.text

\* C38: every Contains edge goes from a stored Document to a stored Chunk,
\* and every Mentions edge from a stored Chunk to a stored Entity.
C38_EdgesHaveEndpoints ==
    /\ \A e \in BagToSet(contains) :
           /\ e.in.tb = "document" /\ Stored(document, e.in.id) # {}
           /\ e.out.tb = "chunk" /\ Stored(chunk, e.out.id) # {}
    /\ \A e \in BagToSet(mentions) :
           /\ e.in.tb = "chunk" /\ Stored(chunk, e.in.id) # {}
           /\ e.out.tb = "entity" /\ Stored(entity, e.out.id) # {}

\* the Entity ids and the (chunk, entity) pairs of the Mentions edges in the
\* store, and what a set of chunks asks for: both are sets, no order in them
EntityIds == {e.id : e \in entity}
MentionPairs == {<<e.in.id, e.out.id>> : e \in BagToSet(mentions)}
AskedIds(chunks) ==
    {sanitize_id(name) : name \in UNION {Candidates(Topics(c)) : c \in chunks}}
AskedPairs(chunks) ==
    UNION {{<<c.id, sanitize_id(name)>> : name \in Candidates(Topics(c))} :
              c \in chunks}

\* C39: when construct_graph has returned Ok with no store call failed, having
\* selected every stored chunk, the set of Entity ids and the set of (chunk,
\* entity) pairs joined by a Mentions edge are those the set of chunks asks
\* for, whatever the order the chunks were selected in and the order the
\* names of a chunk were taken in.
C39_OrderDoesNotMatter ==
    \A p \in DOMAIN cg :
        (/\ faults = 0 /\ cg[p].pc = "ok"
         /\ {c.id : c \in Range(cg[p].sel)} = {c.id : c \in chunk}) =>
            /\ EntityIds = AskedIds(Range(cg[p].sel))
            /\ MentionPairs = AskedPairs(Range(cg[p].sel))

\* the second page was selected before the first, and of the first page the
\* name listed second was taken first
C39_Witness ==
    /\ faults = 0 /\ cg[1].pc = "ok" /\ Len(cg[1].sel) = 2
    /\ cg[1].sel[1].page_index = 1 /\ cg[1].sel[2].page_index = 0
    /\ cg[1].sel[2].metadata.keywords = <<NameAlice, NameBob>>
    /\ cg[1].ops[1] = [op |-> "upsert", chunk |-> cg[1].sel[2].id,
                       entity |-> sanitize_id(NameBob)]
    /\ Cardinality(EntityIds) = 3 /\ Cardinality(MentionPairs) = 4

====
